----------------------------- MODULE Durability -----------------------------
(***************************************************************************)
(* What survives a crash: the batches of RedbStore                         *)
(* (crates/tessra-store/src/lib.rs), the writes of Repo::commit_op and     *)
(* Repo::open (crates/tessra-daemon/src/lib.rs), and the workspace file,   *)
(* around two verbs: snapshot, which points a change at a new revision and *)
(* then moves the workspace, and attest, which only puts an object.        *)
(*                                                                         *)
(* The daemon may stop between any two writes to the disk, and a write may *)
(* fail.  A transaction of the store is all or nothing; a file is          *)
(* truncated and then written.  A caller repeats its call, with its        *)
(* idempotency key, until it is answered.                                  *)
(*                                                                         *)
(* Attempt n of any call makes object n (a revision or an attestation) and *)
(* op n, which is in the log only when it is accepted.  Attempt 0 is init. *)
(* On one daemon every op is built on all heads, so there is one head.     *)
(* Each caller has one workspace and works on one change; the view is the  *)
(* revision of each change.                                                *)
(***************************************************************************)
EXTENDS Naturals

CONSTANTS
  Caller,    \* the agents, each with a workspace and a change
  Torn,      \* a workspace file that does not decode
  MaxTry,    \* bound: attempts of calls
  MaxCrash,  \* bound: crashes
  MaxFail    \* bound: writes that fail

Attempt == 0..MaxTry

Verb == {"init", "snapshot", "attest"}

Step == {"down", "idle", "accepted", "stored", "headed", "indexed", "committed", "truncated",
         "saved"}

ASSUME DurabilityAssumption ==
  /\ MaxTry \in Nat /\ MaxCrash \in Nat /\ MaxFail \in Nat
  /\ Torn \notin Attempt

VARIABLES
  ops,       \* the op of each attempt made
  disk,      \* objects, head and attestation index of the store; workspace files
  batch,     \* puts collected in memory
  log,       \* the log in memory: its head, and which op a key named
  current,   \* the workspaces in memory
  call,      \* the call the daemon works on
  asked,     \* each caller's last call, and whether it was answered
  crashes,
  fails

vars == <<ops, disk, batch, log, current, call, asked, crashes, fails>>

-----------------------------------------------------------------------------
\* Objects: an op, what it puts, and the view after it.
OpObject(n) == [type |-> "op", of |-> n]
PutObject(n) == [type |-> "put", of |-> n]
ViewObject(v) == [type |-> "view", of |-> v]

Readable(object) == object \in disk.objects \cup batch

\* The daemon is up, and works on no call.
Up == call.at # "down"
Idle == call.at = "idle"
At(step) == call.at = step

\* Between calls, and between runs of the daemon.
NoCall(at) == [at |-> at, caller |-> "nobody", try |-> 0, got |-> 0]

-----------------------------------------------------------------------------
(***************************************************************************)
(* A caller asks, and asks again with the same key until it is answered.   *)
(***************************************************************************)
Ask(c, verb) ==
  /\ ~asked[c].open
  /\ asked' = [asked EXCEPT ![c] = [n |-> @.n + 1, verb |-> verb, open |-> TRUE, got |-> 0]]
  /\ UNCHANGED <<ops, disk, batch, log, current, call, crashes, fails>>

\* An answer that is no error ends the call for its caller.
Answered(c, got) ==
  asked' = [asked EXCEPT ![c] = [n |-> @.n, verb |-> @.verb, open |-> FALSE, got |-> got]]

-----------------------------------------------------------------------------
(***************************************************************************)
(* The steps of a call.                                                    *)
(***************************************************************************)

\* What the attempt builds: the view changes for a snapshot only.
BuiltOp(c, id) ==
  LET verb == asked[c].verb
      view == ops[log.head].view
  IN [verb |-> verb, caller |-> c, key |-> asked[c].n,
      ancestors |-> ops[log.head].ancestors \cup {id},
      prev |-> IF verb = "snapshot" THEN current[c] ELSE 0,
      view |-> IF verb = "snapshot" THEN [view EXCEPT ![c] = id] ELSE view]

\* A revision follows the one the change is at.
Legal(c, op) == op.verb = "snapshot" => op.prev = ops[log.head].view[c]

\* An entry of an index of keys, and the ops the key of the call names there.
KeyOf(o) == [caller |-> ops[o].caller, key |-> ops[o].key, op |-> o]
Earlier(c) == {e.op : e \in {k \in log.keys : k.caller = c /\ k.key = asked[c].n}}

\* A snapshot starts from the workspace, which must be there and readable.
Workspace(c) ==
  asked[c].verb = "snapshot" => current[c] # Torn /\ Readable(PutObject(current[c]))

\* Everything up to the acceptance of the op happens in memory, the batch open.
\* The call ends in an error, and leaves at most objects nothing names, when the
\* workspace is not there, the view of the head cannot be read, or the op is
\* rejected.
Begin(c, id, got) ==
  LET op == BuiltOp(c, id)
      new == got = id
  IN /\ Idle /\ asked[c].open /\ DOMAIN ops = 0..(id - 1)
     /\ Workspace(c) /\ Readable(ViewObject(ops[log.head].view))
     /\ got \in IF Earlier(c) = {} THEN {id} ELSE Earlier(c)
     /\ new => Legal(c, op)
     /\ ops' = [n \in DOMAIN ops \cup {id} |-> IF n = id THEN op ELSE ops[n]]
     /\ batch' = batch \cup {PutObject(id), ViewObject(op.view)}
                      \cup (IF new THEN {OpObject(id)} ELSE {})
     /\ log' = IF new
               THEN [head |-> id,
                     keys |-> log.keys \cup {[caller |-> c, key |-> op.key, op |-> id]}]
               ELSE log
     /\ call' = [at |-> "accepted", caller |-> c, try |-> id, got |-> got]
     /\ UNCHANGED <<disk, current, asked, crashes, fails>>

\* Mutant: the puts stay in memory until the next batch ends.
EndBatchLater ==
  /\ At("accepted")
  /\ call' = [call EXCEPT !.at = "stored"]
  /\ UNCHANGED <<ops, disk, batch, log, current, asked, crashes, fails>>

\* end_batch: every pending put in one transaction.
EndBatch ==
  /\ At("accepted")
  /\ disk' = [disk EXCEPT !.objects = @ \cup batch]
  /\ batch' = {}
  /\ call' = [call EXCEPT !.at = "stored"]
  /\ UNCHANGED <<ops, log, current, asked, crashes, fails>>

\* Mutant: only the op the call was answered with is stored as the head.
SetHeadsToGot ==
  /\ At("stored")
  /\ disk' = [disk EXCEPT !.head = call.got]
  /\ call' = [call EXCEPT !.at = "headed"]
  /\ UNCHANGED <<ops, batch, log, current, asked, crashes, fails>>

SetHeads ==
  /\ At("stored")
  /\ disk' = [disk EXCEPT !.head = log.head]
  /\ call' = [call EXCEPT !.at = "headed"]
  /\ UNCHANGED <<ops, batch, log, current, asked, crashes, fails>>

\* Mutant: a repeated call indexes nothing.
IndexNew ==
  /\ At("headed")
  /\ disk' = IF ops[call.try].verb = "attest" /\ call.got = call.try
             THEN [disk EXCEPT !.index = @ \cup {call.try}] ELSE disk
  /\ call' = [call EXCEPT !.at = "indexed"]
  /\ UNCHANGED <<ops, batch, log, current, asked, crashes, fails>>

\* index_op_attestations: of the effects of the attempt, accepted or not.
Index ==
  /\ At("headed")
  /\ disk' = IF ops[call.try].verb = "attest"
             THEN [disk EXCEPT !.index = @ \cup {call.try}] ELSE disk
  /\ call' = [call EXCEPT !.at = "indexed"]
  /\ UNCHANGED <<ops, batch, log, current, asked, crashes, fails>>

\* idem_put: the table is written for the attempt's key, and never read.
PutKey ==
  /\ At("indexed")
  /\ disk' = [disk EXCEPT !.keys = @ \cup {[caller |-> call.caller, key |-> ops[call.try].key,
                                            op |-> call.got]}]
  /\ call' = [call EXCEPT !.at = "committed"]
  /\ UNCHANGED <<ops, batch, log, current, asked, crashes, fails>>

\* Mutant: the revision of this attempt, recorded or not.
RevisionOfTry == call.try

\* The revision the call answers with: of the op that was recorded, if it is there.
Revision == IF Readable(OpObject(call.got)) THEN call.got ELSE call.try

\* The workspace moves, and its file is truncated.
Truncate ==
  /\ At("committed") /\ ops[call.try].verb = "snapshot"
  /\ current' = [current EXCEPT ![call.caller] = Revision]
  /\ disk' = [disk EXCEPT !.workspace[call.caller] = Torn]
  /\ call' = [call EXCEPT !.at = "truncated"]
  /\ UNCHANGED <<ops, batch, log, asked, crashes, fails>>

Save ==
  /\ At("truncated")
  /\ disk' = [disk EXCEPT !.workspace[call.caller] = current[call.caller]]
  /\ call' = [call EXCEPT !.at = "saved"]
  /\ UNCHANGED <<ops, batch, log, current, asked, crashes, fails>>

\* The batch of the call ends, with what was put since commit_op: nothing.
Answer ==
  /\ \/ At("saved")
     \/ At("committed") /\ ops[call.try].verb = "attest"
  /\ Answered(call.caller, call.got)
  /\ call' = NoCall("idle")
  /\ UNCHANGED <<ops, disk, batch, log, current, crashes, fails>>

-----------------------------------------------------------------------------
(***************************************************************************)
(* Failures.                                                               *)
(***************************************************************************)

\* A write fails and the caller is told so.  end_batch has taken the pending
\* puts by then and does not put them back; the log keeps the op.  After
\* commit_op the workspace in memory has moved, unless it was the pending
\* semantic operations that could not be cleared.
Fail ==
  /\ fails < MaxFail
  /\ call.at \in {"accepted", "stored", "headed", "indexed", "committed", "truncated"}
  /\ At("committed") => ops[call.try].verb = "snapshot"
  /\ batch' = {}
  /\ \/ current' = current
     \/ At("committed") /\ current' = [current EXCEPT ![call.caller] = Revision]
  /\ call' = NoCall("idle")
  /\ fails' = fails + 1
  /\ UNCHANGED <<ops, disk, log, asked, crashes>>

Crash ==
  /\ Up /\ crashes < MaxCrash
  /\ call' = NoCall("down")
  /\ batch' = {}
  /\ crashes' = crashes + 1
  /\ UNCHANGED <<ops, disk, log, current, asked, fails>>

\* OpLog::open walks from the stored heads, and needs every op on the way.
Opens == \A o \in ops[disk.head].ancestors : OpObject(o) \in disk.objects

\* Mutant: the index of keys is read from its table.
RebuiltFromTable == [head |-> disk.head, keys |-> disk.keys]

Rebuilt == [head |-> disk.head, keys |-> {KeyOf(o) : o \in ops[disk.head].ancestors \ {0}}]

\* The log is rebuilt from the heads; a workspace file that does not decode is
\* passed over.
Open ==
  /\ At("down") /\ Opens
  /\ log' = Rebuilt
  /\ current' = disk.workspace
  /\ call' = NoCall("idle")
  /\ UNCHANGED <<ops, disk, batch, asked, crashes, fails>>

-----------------------------------------------------------------------------
\* Each caller has a workspace and has started its change: op 0 and put 0 stand
\* for init and these first snapshots.
Init ==
  LET view == [c \in Caller |-> 0] IN
  /\ ops = [n \in {0} |-> [verb |-> "init", caller |-> "nobody", key |-> 0, ancestors |-> {0},
                           prev |-> 0, view |-> view]]
  /\ disk = [objects |-> {OpObject(0), PutObject(0), ViewObject(view)}, head |-> 0,
             index |-> {}, keys |-> {}, workspace |-> view]
  /\ batch = {}
  /\ log = [head |-> 0, keys |-> {}]
  /\ current = view
  /\ call = NoCall("idle")
  /\ asked = [c \in Caller |-> [n |-> 0, verb |-> "init", open |-> FALSE, got |-> 0]]
  /\ crashes = 0
  /\ fails = 0

Next ==
  \/ \E c \in Caller, verb \in {"snapshot", "attest"} : Ask(c, verb)
  \/ \E c \in Caller, id \in Attempt \ {0}, got \in Attempt : Begin(c, id, got)
  \/ EndBatch \/ SetHeads \/ Index \/ PutKey \/ Truncate \/ Save \/ Answer
  \/ Fail \/ Crash \/ Open

Spec == Init /\ [][Next]_vars

-----------------------------------------------------------------------------
(***************************************************************************)
(* Properties.                                                             *)
(***************************************************************************)
Logged == ops[disk.head].ancestors

Object ==
  [type : {"op", "put"}, of : Attempt] \cup [type : {"view"}, of : [Caller -> Attempt]]

\* The type invariant.
TypeOK ==
  LET Made == DOMAIN ops
      Who == Caller \cup {"nobody"}
      Keys == SUBSET [caller : Who, key : Nat, op : Made]
      Position == [Caller -> Made \cup {Torn}]
  IN /\ \E k \in Attempt : Made = 0..k
     /\ ops \in [Made -> [verb : Verb, caller : Who, key : Nat, prev : Made,
                          ancestors : SUBSET Made, view : [Caller -> Made]]]
     /\ disk \in [objects : SUBSET Object, head : Made, index : SUBSET Made, keys : Keys,
                  workspace : Position]
     /\ batch \subseteq Object
     /\ log \in [head : Made, keys : Keys]
     /\ current \in Position
     /\ call \in [at : Step, caller : Who, try : Made, got : Made]
     /\ asked \in [Caller -> [n : Nat, verb : Verb, open : BOOLEAN, got : Made]]
     /\ crashes \in Nat /\ fails \in Nat

\* Whatever the disk names is on the disk, at every moment a crash may come:
\* the stored head reaches stored ops, views and objects only, the attestation
\* index lists stored attestations, and a workspace file names a stored revision
\* (lib.rs:338, "Objects first, in one transaction, then the heads that
\* reference them").
NothingDangles ==
  /\ \A o \in Logged : {OpObject(o), PutObject(o), ViewObject(ops[o].view)} \subseteq disk.objects
  /\ \A n \in disk.index : PutObject(n) \in disk.objects
  /\ \A c \in Caller : disk.workspace[c] # Torn => disk.workspace[c] \in Logged

\* Crashes alone never leave the disk naming what it does not hold, so the
\* repository always opens again: Repo::commit_op stores objects first.
CrashesDangleNothing == fails = 0 => NothingDangles

\* What a caller was told survives: the op answered is reached from the stored
\* head, whatever was retried by whom after a restart (Repo::commit_op stores
\* the heads of the log, not the op it returns).
AnswersSurvive == \A c \in Caller : ~asked[c].open => asked[c].got \in Logged

\* The stored log only grows, across crashes, failures and retries.
LogOnlyGrows == [][Logged \subseteq Logged']_vars

\* A call repeated until it is answered is in the log once, though its key
\* reaches the key table after the op reaches the log (OpLog::open reads the
\* keys from the ops, dag.rs:46).
LoggedOnce ==
  \A o, q \in Logged \ {0} : ops[o].caller = ops[q].caller /\ ops[o].key = ops[q].key => o = q

\* A caller that repeats its calls until they are answered can go on: its
\* workspace is at the revision its change is at, in memory and in the file,
\* though a crash may leave it a revision behind (snapshot, verbs.rs:2629, takes
\* the revision the first attempt recorded).
WorkspaceFollows ==
  Up => \A c \in Caller : ~asked[c].open /\ current[c] # Torn =>
          /\ current[c] = ops[log.head].view[c]
          /\ disk.workspace[c] = current[c]

\* An attestation that was answered is found by the standard: the index lists
\* one made by that call, also when the op was logged before a crash and its
\* index entry was not (index_op_attestations runs for a repeated key, lib.rs:341).
AnsweredIsIndexed ==
  \A c \in Caller : ~asked[c].open /\ asked[c].verb = "attest" =>
    \E n \in disk.index : ops[n].caller = c /\ ops[n].key = asked[c].n
=============================================================================
