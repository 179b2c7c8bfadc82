SPECIFICATION MemorySpec
CONSTANTS
  Keys = {k1}
  Hash = hash
  Onnx = onnx
  Bge = bge
  NoTag = NoTag
  NoFile = NoFile
  Torn = Torn
  MaxVectors = 1
INVARIANT SearchesOneEmbedding
