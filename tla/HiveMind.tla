------------------------------- MODULE HiveMind -------------------------------
(***************************************************************************)
(* The hive-mind command (crates/ruflo-cli/src/hive_mind.rs): one JSON     *)
(* file with the workers, the proposals and the votes.  Every subcommand   *)
(* reads the file, changes what it has read and writes the whole of it     *)
(* back, without a lock; `spawn --claude` runs an AI child of up to two    *)
(* minutes in between.                                                     *)
(*                                                                         *)
(* Tasks, messages, the shared memory and the statuses of hive and workers *)
(* are left out: nothing reads them to decide, and the subcommands that    *)
(* change only these write back the rest as they read it.  A write is      *)
(* atomic, and ids that are made from the clock differ.                    *)
(***************************************************************************)
EXTENDS Naturals, FiniteSets

CONSTANTS
  Callers,     \* processes
  WorkerIds,   \* ids of workers
  Queen,       \* the queen votes too
  Proposals,   \* BOUND: the ids given to proposals
  Capacities,  \* BOUND: the values of --max-agents
  NoHive,      \* no hive file
  NoProposal

Voters     == WorkerIds \cup {Queen}   \* a voter need not be a worker
Strategies == {"byzantine", "raft"} \* gossip, crdt and quorum count as raft does

ASSUME HiveAssumption == IsFiniteSet(WorkerIds) /\ Capacities \subseteq Nat

VARIABLES
  hive,   \* hive-mind.json
  copy,   \* per caller: what its subcommand has read, or NoHive
  voted   \* history: the proposal of the last write if that was a vote

hiveVars == <<hive, copy, voted>>

Ballots == [Voters -> {"none", "accept", "reject"}]
ProposalRecords ==
  [status : {"open", "accepted", "rejected"}, strategy : Strategies, votes : Ballots]
Hives ==
  [max : Capacities, workers : SUBSET WorkerIds,
   proposals : [Proposals -> ProposalRecords \cup {NoProposal}]]

HiveTypeOK ==
  /\ hive \in Hives \cup {NoHive}
  /\ copy \in [Callers -> Hives \cup {NoHive}]
  /\ voted \in Proposals \cup {NoProposal}

HiveInit ==
  /\ hive = NoHive
  /\ copy = [c \in Callers |-> NoHive]
  /\ voted = NoProposal

\* init asks for no hive, and replaces the one there is.
InitHive(c) ==
  /\ copy[c] = NoHive
  /\ \E m \in Capacities :
       hive' = [max |-> m, workers |-> {}, proposals |-> [p \in Proposals |-> NoProposal]]
  /\ voted' = NoProposal
  /\ UNCHANGED copy

\* require_hive: a subcommand begins.
RequireHive(c) ==
  /\ hive # NoHive
  /\ copy[c] = NoHive
  /\ copy' = [copy EXCEPT ![c] = hive]
  /\ UNCHANGED <<hive, voted>>

\* write_hive, and the subcommand ends.
WriteHive(c, h) == hive' = h /\ copy' = [copy EXCEPT ![c] = NoHive]

\* The arguments are refused, the hive is full, or it was a query.
Refuse(c) ==
  /\ copy[c] # NoHive
  /\ copy' = [copy EXCEPT ![c] = NoHive]
  /\ UNCHANGED <<hive, voted>>

\* spawn: as many as there is room for, under new ids.
SpawnWorkers(c) ==
  /\ copy[c] # NoHive
  /\ \E new \in SUBSET (WorkerIds \ copy[c].workers) :
       /\ new # {}
       /\ Cardinality(copy[c].workers) + Cardinality(new) <= copy[c].max
       /\ WriteHive(c, [copy[c] EXCEPT !.workers = @ \cup new])
  /\ voted' = NoProposal

Join(c) ==
  /\ copy[c] # NoHive
  /\ Cardinality(copy[c].workers) < copy[c].max
  /\ \E a \in WorkerIds \ copy[c].workers :
       WriteHive(c, [copy[c] EXCEPT !.workers = @ \cup {a}])
  /\ voted' = NoProposal

LeaveHive(c) ==
  /\ copy[c] # NoHive
  /\ \E a \in copy[c].workers : WriteHive(c, [copy[c] EXCEPT !.workers = @ \ {a}])
  /\ voted' = NoProposal

\* With --strategy, or the hive's.
Propose(c) ==
  /\ copy[c] # NoHive
  /\ \E p \in Proposals, s \in Strategies :
       /\ copy[c].proposals[p] = NoProposal
       /\ WriteHive(c, [copy[c] EXCEPT !.proposals[p] =
            [status |-> "open", strategy |-> s, votes |-> [v \in Voters |-> "none"]]])
  /\ voted' = NoProposal

Members(h)         == Cardinality(h.workers) + 1
Count(votes, vote) == Cardinality({v \in Voters : votes[v] = vote})

Accepted(h, strategy, votes) ==
  IF strategy = "byzantine" THEN Count(votes, "accept") * 3 >= Members(h) * 2
                            ELSE Count(votes, "accept") * 2 > Members(h)

\* FAULT: a tie decides nothing.
RejectedByMajority(h, strategy, votes) ==
  IF strategy = "byzantine" THEN Count(votes, "reject") * 3 >= Members(h)
                            ELSE Count(votes, "reject") * 2 > Members(h)

Rejected(h, strategy, votes) ==
  IF strategy = "byzantine" THEN Count(votes, "reject") * 3 >= Members(h)
                            ELSE Count(votes, "reject") * 2 >= Members(h)

\* A vote replaces the voter's earlier one, and the status follows the votes
\* where they suffice; otherwise it stays what it was.
Resolve(h, p, votes) ==
  [p EXCEPT !.votes = votes,
            !.status = IF Accepted(h, p.strategy, votes) THEN "accepted"
                       ELSE IF Rejected(h, p.strategy, votes) THEN "rejected" ELSE @]

Vote(c) ==
  /\ copy[c] # NoHive
  /\ \E p \in Proposals, v \in Voters, vote \in {"accept", "reject"} :
       LET old == copy[c].proposals[p] IN
         /\ old # NoProposal
         /\ WriteHive(c, [copy[c] EXCEPT !.proposals[p] =
              Resolve(copy[c], old, [old.votes EXCEPT ![v] = vote])])
         /\ voted' = p

\* task, broadcast, memory set and delete, optimize-memory, shutdown
WriteRest(c) ==
  /\ copy[c] # NoHive
  /\ WriteHive(c, copy[c])
  /\ voted' = NoProposal

HiveNext ==
  \E c \in Callers :
    \/ InitHive(c) \/ RequireHive(c) \/ Refuse(c) \/ SpawnWorkers(c) \/ Join(c)
    \/ LeaveHive(c) \/ Propose(c) \/ Vote(c) \/ WriteRest(c)

HiveSpec == HiveInit /\ [][HiveNext]_hiveVars

------------------------------------------------------------------------------
(* Correctness *)

\* However the subcommands overwrite each other, a written hive has no more
\* workers than it allows; and a vote that makes as many votes as there are
\* members decides its proposal, in a way that depends on the votes and not on
\* the order they came in: accepted with more than half of the members (two
\* thirds under byzantine), rejected otherwise.
FullVoteDecides ==
  /\ hive # NoHive => Cardinality(hive.workers) <= hive.max
  /\ voted # NoProposal =>
       LET p == hive.proposals[voted] IN
         Count(p.votes, "accept") + Count(p.votes, "reject") >= Members(hive) =>
           p.status = IF Accepted(hive, p.strategy, p.votes) THEN "accepted" ELSE "rejected"
=============================================================================
