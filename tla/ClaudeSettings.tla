---------------------------- MODULE ClaudeSettings ----------------------------
(***************************************************************************)
(* `announcements` and `spinner` (crates/ruflo-cli/src/announcements.rs    *)
(* and spinner.rs): each enters marked lines of its own into the           *)
(* settings.json of Claude Code, takes them out, or puts the latest backup *)
(* back.  The file is the user's, who edits it at any moment, and what     *)
(* they wrote may not even parse.  Every command reads the file, writes    *)
(* what it read to a backup, and then replaces the file; writes fail, and  *)
(* the process may die between any two.  Left out: the consents, which     *)
(* only `list` reads; backups of one and the same millisecond, which share *)
(* a name; a second command beside the first.                              *)
(***************************************************************************)
EXTENDS Naturals, Sequences

CONSTANTS
  MaxEdits,    \* bound on the edits of the user
  MaxBackups   \* bound on the backups beside the file

ASSUME SettingsAssumption == MaxEdits \in Nat /\ MaxBackups \in Nat

VARIABLES
  settings,  \* settings.json
  backups,   \* settings.json.bak-<time>, in the order of their times
  edits,     \* how often the user has edited
  running    \* the command: where it is, what it read, what it restores

settingsVars == <<settings, backups, edits, running>>

Features == {"announcements", "spinner"}

\* What the user wrote, by the number of the edit (0 for nothing), and for which
\* features there are marked lines.  "own": the user has lines in both lists too;
\* "replace": and a spinner block that says so; "broken": it does not parse;
\* "unreadable": it is not even text; "torn": a write that was cut off.
File(n, form, ours) == [edit |-> n, form |-> form, ours |-> ours]
Parsable == {"plain", "own", "replace"}
Forms    == Parsable \cup {"broken", "unreadable"}
Nothing  == File(0, "none", {})
TornFile == File(0, "torn", {})

Files == [edit : 0..MaxEdits, form : Forms \cup {"none", "torn"}, ours : SUBSET Features]

Quiet == [at |-> "quiet", op |-> "none", feature |-> "none", raw |-> Nothing, from |-> Nothing]

SettingsTypeOK ==
  /\ settings \in Files
  /\ backups \in Seq(Files) /\ Len(backups) <= MaxBackups
  /\ edits \in 0..MaxEdits
  /\ running \in [at : {"quiet", "backup", "write", "copy", "fill"},
                  op : {"none", "enable", "disable", "reset"},
                  feature : Features \cup {"none"}, raw : Files, from : Files]

SettingsInit ==
  /\ settings = Nothing
  /\ backups = <<>>
  /\ edits = 0
  /\ running = Quiet

\* The user, with an editor or Claude Code: any text, with any of the marked
\* lines that were there, or no file any more.
UserEdits ==
  /\ edits < MaxEdits
  /\ edits' = edits + 1
  /\ settings' \in {Nothing}
       \cup {File(edits + 1, form, ours) : form \in Parsable, ours \in SUBSET settings.ours}
       \cup {File(edits + 1, form, {}) : form \in {"broken", "unreadable"}}
  /\ UNCHANGED <<backups, running>>

------------------------------------------------------------------------------
\* read_settings: what cannot be read counts as no file, what cannot be parsed
\* as an empty object.
Raw == IF settings.form = "unreadable" THEN Nothing ELSE settings
Data(raw) == IF raw.form \in Parsable THEN raw ELSE File(0, "plain", {})

\* There is a non-empty list for the feature.
Lists(raw, f) ==
  \/ f \in raw.ours
  \/ raw.form = "own"
  \/ raw.form = "replace" /\ f = "spinner"

StartCommand(op, f, from, next) ==
  /\ running.at = "quiet"
  /\ running' = [at |-> IF Raw = Nothing THEN next ELSE "backup",
                 op |-> op, feature |-> f, raw |-> Raw, from |-> from]
  /\ UNCHANGED <<settings, backups, edits>>

\* Without --yes it only says what it would do.
EnableFeature(f)  == StartCommand("enable", f, Nothing, "write")
DisableFeature(f) == Lists(Raw, f) /\ StartCommand("disable", f, Nothing, "write")
Reset             == backups # <<>> /\ StartCommand("reset", "none", backups[Len(backups)], "copy")

\* `spinner enable` does not append to a block that replaces, and says so only
\* after the backup.
Refused ==
  running.op = "enable" /\ running.feature = "spinner" /\ running.raw.form = "replace"

TearBackup == backups' \in {backups, Append(backups, TornFile)}

\* FAULT: the backup is tried, and the command goes on.
BackUpAnyway ==
  /\ running.at = "backup"
  /\ Len(backups) < MaxBackups
  /\ backups' = Append(backups, running.raw) \/ TearBackup
  /\ running' = IF Refused THEN Quiet
                ELSE [running EXCEPT !.at = IF running.op = "reset" THEN "copy" ELSE "write"]
  /\ UNCHANGED <<settings, edits>>

BackUp ==
  /\ running.at = "backup"
  /\ Len(backups) < MaxBackups
  /\ \/ /\ backups' = Append(backups, running.raw)
        /\ running' = IF Refused THEN Quiet
                      ELSE [running EXCEPT !.at = IF running.op = "reset" THEN "copy" ELSE "write"]
     \/ TearBackup /\ running' = Quiet
  /\ UNCHANGED <<settings, edits>>

\* write_settings: a file of its own, renamed over the old one, or an error.
Changed ==
  LET data == Data(running.raw)
  IN  [data EXCEPT !.ours = IF running.op = "enable" THEN @ \cup {running.feature}
                            ELSE @ \ {running.feature}]

WriteSettings ==
  /\ running.at = "write"
  /\ settings' \in {settings, Changed}
  /\ running' = Quiet
  /\ UNCHANGED <<backups, edits>>

\* reset copies: the file is cut before it is filled, and may stay so.
CutFile ==
  /\ running.at = "copy"
  /\ \/ settings' = TornFile /\ running' = [running EXCEPT !.at = "fill"]
     \/ UNCHANGED settings /\ running' = Quiet
  /\ UNCHANGED <<backups, edits>>

FillFile ==
  /\ running.at = "fill"
  /\ settings' \in {settings, running.from}
  /\ running' = Quiet
  /\ UNCHANGED <<backups, edits>>

DieRunning ==
  /\ running.at # "quiet"
  /\ IF running.at = "backup" /\ Len(backups) < MaxBackups THEN TearBackup
     ELSE UNCHANGED backups
  /\ running' = Quiet
  /\ UNCHANGED <<settings, edits>>

SettingsNext ==
  \/ UserEdits
  \/ \E f \in Features : EnableFeature(f) \/ DisableFeature(f)
  \/ Reset \/ BackUp \/ WriteSettings \/ CutFile \/ FillFile \/ DieRunning

SettingsSpec == SettingsInit /\ [][SettingsNext]_settingsVars

------------------------------------------------------------------------------
(* Correctness *)

\* "Backup-first; user-authored entries are always preserved" (announcements.rs:5):
\* when a command replaces what it has read, even a file that did not parse, the
\* user's text is still in the file or whole in a backup, whatever failed before
\* and whichever backup is the latest.  Not kept: what the user writes after the
\* command has read, and what could not be read.
UserTextKept ==
  [][settings' # settings =>
       (running.raw = settings /\ settings.edit # 0 /\ edits' = edits =>
          \/ settings'.edit = settings.edit /\ settings'.form = settings.form
          \/ \E i \in 1..Len(backups) : backups[i] = settings)]_settingsVars
=============================================================================
