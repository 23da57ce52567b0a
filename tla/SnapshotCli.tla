----------------------------- MODULE SnapshotCli -----------------------------
(***************************************************************************)
(* The snapshot commands of the node binary (src/cmd/Nexelrad/cmd/        *)
(* commands.go): "snapshots info", "snapshots list" and "snapshots        *)
(* delete", acting on the entries of <home>/data/snapshots, the node's    *)
(* RPC status reply and the lines of config/app.toml.                    *)
(*                                                                         *)
(* The cosmos-sdk snapshot store keeps a directory per snapshot height    *)
(* (holding the format and chunk files, so never empty) and the           *)
(* directory metadata.db.  A directory entry is abstracted to its kind    *)
(* ("file", "dir": non-empty directory, "emptydir"), the form of the      *)
(* leading decimal digits of its name ("digits", "none", or "huge" when   *)
(* they do not fit in an int64), their value and a tag for the name.      *)
(* A line of app.toml is "key = value": the key as written (a commented   *)
(* line keeps its '#'), the value's form ("digits", "huge" for digits not *)
(* fitting in an int, "word" for anything else) and its number.           *)
(***************************************************************************)
EXTENDS Integers, Sequences, SequencesExt, FiniteSets, FiniteSetsExt

CONSTANTS
  Entries,      \* entries the snapshot directory may hold
  Replies,      \* replies of GET localhost:26657/status
  Configs,      \* app.toml contents (sequences of lines) or ReadError
  Answers,      \* what the user types at the y/N prompt
  ReadError,    \* os.ReadFile(app.toml) failed
  BarWidth,     \* the width runSnapshotInfo passes to createProgressBar
  None          \* no output yet

VARIABLES
  dir,          \* the entries of <home>/data/snapshots
  reply,        \* the node's RPC status reply
  config,       \* the content of app.toml
  shown,        \* what the last "info" printed
  listed,       \* the entries the last "list" printed
  result        \* the outcome of the last "delete"

vars == <<dir, reply, config, shown, listed, result>>

(***************************************************************************)
(* Integer helpers of the Go code.                                         *)
(***************************************************************************)
\* Go's integer quotient truncates toward zero (b > 0).
GoQuo(a, b) == IF a >= 0 THEN a \div b ELSE -((-a) \div b)

\* strings.Repeat panics on a negative count.
Bar(f, e) == [panic |-> f < 0 \/ e < 0, filled |-> f, empty |-> e]

(***************************************************************************)
(* getRealDataFromRPC: the parsed latest_block_height, or 0 when the       *)
(* request or the decoding fails; a reply's "height" is what              *)
(* strconv.ParseInt made of the string, if it parsed.                     *)
(***************************************************************************)
getRealDataFromRPC(r) ==
  IF r.status # "ok" \/ ~r.parsed THEN 0 ELSE r.height

\* Mutant: the height of the reply used even when it is not positive.
getRealBlockchainStatusNoGuard(r) == getRealDataFromRPC(r)

\* getRealBlockchainStatus: the RPC height if positive, else 0.
getRealBlockchainStatus(r) ==
  IF getRealDataFromRPC(r) > 0 THEN getRealDataFromRPC(r) ELSE 0

(***************************************************************************)
(* parseConfigValueInt: the first line matching key\s*=\s*(\d+) -- the     *)
(* pattern is not anchored, so a commented line matches as well -- gives  *)
(* the value; strconv.Atoi failing on it, no matching line and an         *)
(* unreadable file all give the key's default.                             *)
(***************************************************************************)
Default(key) ==
  CASE key = "snapshot-interval"    -> 100
    [] key = "snapshot-keep-recent" -> 2
    [] OTHER                        -> 0

Matches(line, key) == line.key \in {key, "#" \o key} /\ line.form # "word"

parseConfigValueInt(file, key) ==
  IF file = ReadError THEN Default(key)
  ELSE LET k == SelectInSeq(file, LAMBDA line : Matches(line, key))
       IN  IF k = 0 \/ file[k].form = "huge" THEN Default(key) ELSE file[k].val

(***************************************************************************)
(* extractHeightFromDirname: the leading digits of the name, 0 if none or *)
(* if ParseInt fails on them.                                              *)
(***************************************************************************)
extractHeightFromDirname(e) == IF e.digits = "digits" THEN e.lead ELSE 0

\* The entries countSnapshotFiles and getLatestSnapshotHeight look at.
IsSnapshotDir(e) == e.kind # "file" /\ e.tag # "metadata.db"

countSnapshotFiles(d) ==
  Cardinality({e \in d : IsSnapshotDir(e) /\ extractHeightFromDirname(e) > 0})

getLatestSnapshotHeight(d) ==
  Max({0} \cup {extractHeightFromDirname(e) : e \in {x \in d : IsSnapshotDir(x)}})

\* createProgressBar(current, total, width)
createProgressBar(current, total, width) ==
  IF total = 0 THEN Bar(0, width)
  ELSE LET f0 == GoQuo(current * width, total)
           f  == IF f0 > width THEN width ELSE f0
       IN  Bar(f, width - f)

(***************************************************************************)
(* runSnapshotInfo: the status, the configuration, the snapshot progress  *)
(* with its bar when the interval is not 0, then the snapshot files.      *)
(***************************************************************************)
runSnapshotInfo(d, r, file) ==
  LET h        == getRealBlockchainStatus(r)
      interval == parseConfigValueInt(file, "snapshot-interval")
      last     == GoQuo(h, interval) * interval
      count    == countSnapshotFiles(d)
      files    == [count |-> count,
                   latest |-> IF count > 0 THEN getLatestSnapshotHeight(d) ELSE 0]
  IN  IF interval = 0
      THEN [height |-> h, interval |-> 0, progress |-> None] @@ files
      ELSE [height |-> h, interval |-> interval,
            progress |-> [last |-> last, next |-> last + interval, current |-> h - last,
                          bar |-> createProgressBar(h - last, interval, BarWidth)]] @@ files

Init ==
  /\ dir \in SUBSET Entries
  /\ reply \in Replies
  /\ config \in Configs
  /\ shown = None /\ listed = None /\ result = None

\* "snapshots info"
Info ==
  /\ shown' = runSnapshotInfo(dir, reply, config)
  /\ UNCHANGED <<dir, reply, config, listed, result>>

\* "snapshots list" (runSnapshotList): every entry that is not a directory.
List ==
  /\ listed' = {e \in dir : e.kind = "file"}
  /\ UNCHANGED <<dir, reply, config, shown, result>>

(***************************************************************************)
(* "snapshots delete <file>" (runSnapshotDelete): an error if the entry   *)
(* does not exist; otherwise the y/N prompt, then os.Remove, which fails  *)
(* on a directory that is not empty.  What info and list printed before   *)
(* describes the directory as it was.                                     *)
(***************************************************************************)
Delete(e, answer) ==
  /\ result' = CASE e \notin dir               -> "notfound"
                 [] answer \notin {"y", "Y"}   -> "cancelled"
                 [] e.kind = "dir"             -> "removefailed"
                 [] OTHER                      -> "deleted"
  /\ dir' = IF result' = "deleted" THEN dir \ {e} ELSE dir
  /\ shown' = None /\ listed' = None
  /\ UNCHANGED <<reply, config>>

\* "snapshots create" (runSnapshotCreate) only prints that it started.
CreateSnapshot ==
  /\ result' = "initiated"
  /\ UNCHANGED <<dir, reply, config, shown, listed>>

(***************************************************************************)
(* Restore: the y/N prompt unless forced, then a placeholder that reports *)
(* completion; the file argument is not looked at.  "snapshots restore"   *)
(* passes its --force flag to runSnapshotRestoreWithForce; the top-level  *)
(* "snapshot-restore" declares the same flag but calls runSnapshotRestore, *)
(* which passes false.                                                     *)
(***************************************************************************)
runSnapshotRestoreWithForce(force, answer) ==
  IF ~force /\ answer \notin {"y", "Y"} THEN "cancelled" ELSE "restored"

RestoreCmds == {"snapshots restore", "snapshot-restore"}

Restore(cmd, answer, force) ==
  /\ result' = runSnapshotRestoreWithForce(cmd = "snapshots restore" /\ force, answer)
  /\ UNCHANGED <<dir, reply, config, shown, listed>>

Next ==
  \/ Info
  \/ List
  \/ \E e \in Entries, answer \in Answers : Delete(e, answer)
  \/ CreateSnapshot
  \/ \E cmd \in RestoreCmds, answer \in Answers, force \in BOOLEAN : Restore(cmd, answer, force)

Spec == Init /\ [][Next]_vars

-----------------------------------------------------------------------------
(***************************************************************************)
(* The snapshot progress is sound (runSnapshotInfo with createProgressBar, *)
(* fed by getRealBlockchainStatus): whatever the RPC endpoint replies and *)
(* whatever app.toml says, "info" never panics in strings.Repeat, the bar *)
(* is exactly BarWidth cells with floor(BarWidth * current / interval)    *)
(* of them filled, and the shown heights bracket the current height with  *)
(* the last one a multiple of the interval.                               *)
(***************************************************************************)
ProgressSound ==
  shown # None /\ shown.progress # None =>
    LET p == shown.progress IN
    /\ ~p.bar.panic
    /\ p.bar.filled + p.bar.empty = BarWidth
    /\ p.bar.filled = (p.current * BarWidth) \div shown.interval
    /\ p.last <= shown.height /\ shown.height < p.next
    /\ p.last % shown.interval = 0

\* The snapshots countSnapshotFiles counts.
Snapshots(d) == {e \in d : IsSnapshotDir(e) /\ extractHeightFromDirname(e) > 0}

(***************************************************************************)
(* "list" shows the snapshots "info" counts: every snapshot directory of  *)
(* the store is among the entries runSnapshotList prints.                 *)
(***************************************************************************)
ListShowsSnapshots == listed # None => Snapshots(dir) \subseteq listed

(***************************************************************************)
(* "info" shows the snapshot interval the node runs with (the comment at  *)
(* commands.go:341, "GET REAL SNAPSHOT CONFIGURATION"): when app.toml sets *)
(* snapshot-interval on an uncommented line -- the only kind of line the  *)
(* node's TOML parser reads -- parseConfigValueInt returns that value.    *)
(***************************************************************************)
NodeIntervals(file) ==
  IF file = ReadError THEN {}
  ELSE {file[k].val : k \in {i \in DOMAIN file : file[i].key = "snapshot-interval" /\ file[i].form = "digits"}}

InfoShowsNodeInterval ==
  shown # None /\ NodeIntervals(config) # {} => shown.interval \in NodeIntervals(config)

=============================================================================
