-------------------------- MODULE DurabilityProofs --------------------------
(***************************************************************************)
(* What survives crashes and failed writes, proved for any number of       *)
(* callers, attempts, crashes and failures.                                *)
(***************************************************************************)
EXTENDS Durability, TLAPS

\* The ops the log in memory holds, and what accepting an op stores.
Known == ops[log.head].ancestors
StoredFor(o) == {OpObject(o), PutObject(o), ViewObject(ops[o].view)}

Busy == call.at \notin {"idle", "down"}

OncePerKey(S) ==
  \A o, q \in S \ {0} : ops[o].caller = ops[q].caller /\ ops[o].key = ops[q].key => o = q

\* Ancestors are closed.
Lineage ==
  \A n \in DOMAIN ops :
    /\ {0, n} \subseteq ops[n].ancestors
    /\ \A a \in ops[n].ancestors : ops[a].ancestors \subseteq ops[n].ancestors

\* The log in memory is the stored one or goes on from it, and its index of keys
\* is that of its ops.
MemoryAhead ==
  Up => /\ disk.head \in Known
        /\ log.keys = {KeyOf(o) : o \in Known \ {0}}
        /\ OncePerKey(Known)

\* Objects are pending only until the batch of the op ends.
BatchShort == call.at # "accepted" => batch = {}

\* The call of an attempt is the one its caller waits for, and each write is
\* done at the steps after it.
CallOpen ==
  Busy => /\ call.caller \in Caller /\ asked[call.caller].open
          /\ ops[call.try].caller = call.caller
          /\ ops[call.try].key = asked[call.caller].n
          /\ ops[call.try].verb = asked[call.caller].verb
          /\ call.got \in Known
          /\ call.at \notin {"accepted", "stored"} => call.got \in Logged
          /\ call.at \in {"indexed", "committed"} /\ ops[call.try].verb = "attest"
               => call.try \in disk.index
          /\ call.at \in {"truncated", "saved"} => ops[call.try].verb = "snapshot"

\* Without failed writes everything memory counts on is on the disk or pending.
NothingLost ==
  fails = 0 =>
    /\ NothingDangles
    /\ Up => \A o \in Known : StoredFor(o) \subseteq disk.objects \cup batch
    /\ Busy => PutObject(call.try) \in disk.objects \cup batch
    /\ call.at = "truncated" => current[call.caller] \in Logged

IInv ==
  /\ TypeOK /\ Lineage /\ MemoryAhead /\ BatchShort /\ CallOpen /\ NothingLost
  /\ AnswersSurvive /\ LoggedOnce /\ AnsweredIsIndexed

-----------------------------------------------------------------------------
\* Init and the first snapshots make attempt 0.
LEMMA ZeroMade == TypeOK => 0 \in DOMAIN ops
<1>. SUFFICES ASSUME TypeOK PROVE 0 \in DOMAIN ops
  OBVIOUS
<1>1. PICK k \in Attempt : DOMAIN ops = 0..k
  BY DEF TypeOK
<1>. QED BY <1>1 DEF Attempt

\* The initial state satisfies the invariant.
LEMMA InitOK == Init => IInv
<1>. SUFFICES ASSUME Init PROVE IInv
  OBVIOUS
<1>. USE DurabilityAssumption DEF Init, NoCall
<1>0. DOMAIN ops = {0} /\ 0 \in Attempt /\ 0..0 = {0}
  BY DEF Attempt
<1>1. TypeOK
  BY <1>0 DEF TypeOK, Verb, Step, Object, OpObject, PutObject, ViewObject
<1>2. Lineage /\ MemoryAhead /\ BatchShort /\ CallOpen
  BY <1>0 DEF Lineage, MemoryAhead, OncePerKey, BatchShort, CallOpen, Busy, Known, Up, KeyOf
<1>3. NothingLost
  BY <1>0 DEF NothingLost, NothingDangles, StoredFor, Known, Logged, Busy, Up
<1>4. AnswersSurvive /\ LoggedOnce /\ AnsweredIsIndexed
  BY <1>0 DEF AnswersSurvive, LoggedOnce, Logged, AnsweredIsIndexed
<1>. QED BY <1>1, <1>2, <1>3, <1>4 DEF IInv

\* Asking only opens the caller's call, and only when it has none.
LEMMA AskPreserves ==
  ASSUME IInv, NEW c \in Caller, NEW verb \in {"snapshot", "attest"}, Ask(c, verb)
  PROVE  IInv'
<1>0. /\ 0 \in DOMAIN ops /\ asked[c].n \in Nat
      /\ asked \in [Caller -> [n : Nat, verb : Verb, open : BOOLEAN, got : DOMAIN ops]]
  <2>1. TypeOK
    BY DEF IInv
  <2>2. asked \in [Caller -> [n : Nat, verb : Verb, open : BOOLEAN, got : DOMAIN ops]]
    BY <2>1 DEF TypeOK
  <2>. QED BY <2>1, <2>2, ZeroMade
<1>1. TypeOK'
  <2>1. [n |-> asked[c].n + 1, verb |-> verb, open |-> TRUE, got |-> 0]
          \in [n : Nat, verb : Verb, open : BOOLEAN, got : DOMAIN ops]
    BY <1>0 DEF Verb
  <2>2. asked' \in [Caller -> [n : Nat, verb : Verb, open : BOOLEAN, got : DOMAIN ops]]
    BY <1>0, <2>1 DEF Ask
  <2>. QED BY <2>2 DEF IInv, TypeOK, Ask
<1>. USE DEF IInv, TypeOK, Ask
<1>2. Lineage' /\ BatchShort'
  BY DEF Lineage, BatchShort
<1>3. MemoryAhead'
  BY DEF MemoryAhead, OncePerKey, Known, Up, KeyOf
<1>4. CallOpen'
  BY DEF CallOpen, Busy, Known, Logged
<1>5. NothingLost'
  BY DEF NothingLost, NothingDangles, StoredFor, Known, Logged, Busy, Up
<1>6. AnswersSurvive' /\ LoggedOnce' /\ AnsweredIsIndexed'
  <2>1. /\ asked'[c].open /\ UNCHANGED <<ops, disk>>
        /\ \A d \in Caller : d # c => asked'[d] = asked[d]
    BY <1>0
  <2>. HIDE DEF TypeOK, Ask
  <2>2. AnswersSurvive'
    BY <2>1 DEF AnswersSurvive, Logged
  <2>3. LoggedOnce'
    BY <2>1 DEF LoggedOnce, Logged
  <2>4. AnsweredIsIndexed'
    BY <2>1 DEF AnsweredIsIndexed
  <2>. QED BY <2>2, <2>3, <2>4
<1>. QED BY <1>1, <1>2, <1>3, <1>4, <1>5, <1>6

\* An attempt adds an op and changes none; the log goes on to it or stays.
LEMMA BeginPreserves ==
  ASSUME IInv, NEW c \in Caller, NEW id \in Attempt \ {0}, NEW got \in Attempt, Begin(c, id, got)
  PROVE  IInv'
<1>. DEFINE op == BuiltOp(c, id)
<1>1. /\ 0 \in DOMAIN ops /\ id \notin DOMAIN ops /\ id # 0
      /\ DOMAIN ops' = DOMAIN ops \cup {id} /\ DOMAIN ops' = 0..id
      /\ ops'[id] = op
      /\ \A n \in DOMAIN ops : ops'[n] = ops[n]
  <2>1. DOMAIN ops = 0..(id - 1) /\ id \in Nat \ {0}
    BY DurabilityAssumption DEF Begin, Attempt
  <2>2. ops' = [n \in DOMAIN ops \cup {id} |-> IF n = id THEN op ELSE ops[n]]
    BY DEF Begin
  <2>3. id \notin 0..(id - 1) /\ 0 \in 0..(id - 1) /\ 0..(id - 1) \cup {id} = 0..id
    BY <2>1
  <2>. HIDE DEF op
  <2>. QED BY <2>1, <2>2, <2>3
<1>2. /\ log.head \in DOMAIN ops /\ disk.head \in DOMAIN ops
      /\ Known \subseteq DOMAIN ops /\ Logged \subseteq DOMAIN ops /\ Logged' = Logged
      /\ call.at = "idle" /\ batch = {} /\ Up
  BY <1>1 DEF IInv, TypeOK, Begin, Idle, BatchShort, Known, Logged, Up
<1>3. /\ op.caller = c /\ op.key = asked[c].n /\ op.verb = asked[c].verb
      /\ op.ancestors = Known \cup {id}
      /\ op.view \in [Caller -> DOMAIN ops \cup {id}]
      /\ op.prev \in DOMAIN ops
      /\ op \in [verb : Verb, caller : Caller \cup {"nobody"}, key : Nat, prev : DOMAIN ops',
                 ancestors : SUBSET DOMAIN ops', view : [Caller -> DOMAIN ops']]
  <2>1. op.caller = c /\ op.key = asked[c].n /\ op.verb = asked[c].verb
    BY DEF BuiltOp
  <2>2. op.ancestors = Known \cup {id}
    BY DEF BuiltOp, Known
  <2>3. op.view \in [Caller -> DOMAIN ops \cup {id}]
    BY <1>2 DEF IInv, TypeOK, BuiltOp
  <2>4. op.prev \in DOMAIN ops
    BY <1>1 DEF IInv, TypeOK, Begin, Workspace, BuiltOp
  <2>5. op = [verb |-> op.verb, caller |-> op.caller, key |-> op.key, ancestors |-> op.ancestors,
              prev |-> op.prev, view |-> op.view]
    BY DEF BuiltOp
  <2>6. asked[c].verb \in Verb /\ asked[c].n \in Nat
    BY DEF IInv, TypeOK
  <2>. HIDE DEF op
  <2>. QED BY <1>1, <1>2, <2>1, <2>2, <2>3, <2>4, <2>5, <2>6
<1>4. got = id \/ got \in Known \ {0}
  BY <1>2 DEF IInv, Begin, Earlier, MemoryAhead, KeyOf
<1>5. got = id => \A o \in Known \ {0} : ~(ops[o].caller = c /\ ops[o].key = asked[c].n)
  <2>. SUFFICES ASSUME got = id, NEW o \in Known \ {0}, ops[o].caller = c,
                       ops[o].key = asked[c].n
                PROVE  FALSE
    OBVIOUS
  <2>1. KeyOf(o) \in log.keys
    BY <1>2 DEF IInv, MemoryAhead
  <2>2. o \in Earlier(c)
    BY <2>1 DEF Earlier, KeyOf
  <2>3. \A q \in Earlier(c) : q \in Known
    BY <1>2 DEF IInv, MemoryAhead, Earlier, KeyOf
  <2>. QED BY <1>1, <1>2, <2>2, <2>3 DEF Begin
<1>6. Known' = IF got = id THEN Known \cup {id} ELSE Known
  BY <1>1, <1>2, <1>3 DEF Begin, Known
<1>. HIDE DEF op
<1>7. TypeOK'
  <2>1. \E k \in Attempt : DOMAIN ops' = 0..k
    BY <1>1
  <2>2. ops' \in [DOMAIN ops' -> [verb : Verb, caller : Caller \cup {"nobody"}, key : Nat,
                   prev : DOMAIN ops', ancestors : SUBSET DOMAIN ops',
                   view : [Caller -> DOMAIN ops']]]
    <3>1. ops' = [n \in DOMAIN ops' |-> ops'[n]]
      BY <1>1 DEF Begin
    <3>2. ASSUME NEW n \in DOMAIN ops
          PROVE  ops[n] \in [verb : Verb, caller : Caller \cup {"nobody"}, key : Nat,
                   prev : DOMAIN ops', ancestors : SUBSET DOMAIN ops',
                   view : [Caller -> DOMAIN ops']]
      <4>1. ops[n] \in [verb : Verb, caller : Caller \cup {"nobody"}, key : Nat,
                        prev : DOMAIN ops, ancestors : SUBSET DOMAIN ops,
                        view : [Caller -> DOMAIN ops]]
        BY DEF IInv, TypeOK
      <4>2. [Caller -> DOMAIN ops] \subseteq [Caller -> DOMAIN ops']
        BY <1>1
      <4>. QED BY <1>1, <4>1, <4>2
    <3>. QED BY <1>1, <1>3, <3>1, <3>2
  <2>3. batch' \subseteq Object
    <3>1. id \in Attempt /\ op.view \in [Caller -> Attempt]
      <4>1. DOMAIN ops' \subseteq Attempt
        BY <1>1, DurabilityAssumption DEF Attempt
      <4>. QED BY <1>1, <1>3, <4>1
    <3>. QED BY <1>2, <3>1 DEF Begin, Object, PutObject, OpObject, ViewObject, op
  <2>4. log' \in [head : DOMAIN ops', keys : SUBSET [caller : Caller \cup {"nobody"}, key : Nat,
                                                    op : DOMAIN ops']]
    <3>1. log \in [head : DOMAIN ops, keys : SUBSET [caller : Caller \cup {"nobody"}, key : Nat,
                                                   op : DOMAIN ops]]
      BY DEF IInv, TypeOK
    <3>2. log \in [head : DOMAIN ops', keys : SUBSET [caller : Caller \cup {"nobody"}, key : Nat,
                                                    op : DOMAIN ops']]
      BY <1>1, <3>1
    <3>3. [caller |-> c, key |-> op.key, op |-> id]
            \in [caller : Caller \cup {"nobody"}, key : Nat, op : DOMAIN ops']
      BY <1>1, <1>3
    <3>4. log' = IF got = id
                 THEN [head |-> id,
                       keys |-> log.keys \cup {[caller |-> c, key |-> op.key, op |-> id]}]
                 ELSE log
      BY DEF Begin, op
    <3>. QED BY <1>1, <3>2, <3>3, <3>4
  <2>5. call' \in [at : Step, caller : Caller \cup {"nobody"}, try : DOMAIN ops',
                   got : DOMAIN ops']
    BY <1>1, <1>2, <1>4 DEF Begin, Step
  <2>6. /\ disk' \in [objects : SUBSET Object, head : DOMAIN ops', index : SUBSET DOMAIN ops',
                      keys : SUBSET [caller : Caller \cup {"nobody"}, key : Nat, op : DOMAIN ops'],
                      workspace : [Caller -> DOMAIN ops' \cup {Torn}]]
        /\ current' \in [Caller -> DOMAIN ops' \cup {Torn}]
    <3>1. /\ disk \in [objects : SUBSET Object, head : DOMAIN ops, index : SUBSET DOMAIN ops,
                       keys : SUBSET [caller : Caller \cup {"nobody"}, key : Nat, op : DOMAIN ops],
                       workspace : [Caller -> DOMAIN ops \cup {Torn}]]
          /\ current \in [Caller -> DOMAIN ops \cup {Torn}]
      BY DEF IInv, TypeOK
    <3>2. /\ [Caller -> DOMAIN ops \cup {Torn}] \subseteq [Caller -> DOMAIN ops' \cup {Torn}]
          /\ SUBSET DOMAIN ops \subseteq SUBSET DOMAIN ops'
      BY <1>1
    <3>3. SUBSET [caller : Caller \cup {"nobody"}, key : Nat, op : DOMAIN ops]
            \subseteq SUBSET [caller : Caller \cup {"nobody"}, key : Nat, op : DOMAIN ops']
      BY <1>1
    <3>4. disk' = disk /\ current' = current
      BY DEF Begin
    <3>. QED BY <1>1, <3>1, <3>2, <3>3, <3>4
  <2>7. /\ asked' \in [Caller -> [n : Nat, verb : Verb, open : BOOLEAN, got : DOMAIN ops']]
        /\ crashes' \in Nat /\ fails' \in Nat
    BY <1>1 DEF IInv, TypeOK, Begin
  <2>. QED BY <2>1, <2>2, <2>3, <2>4, <2>5, <2>6, <2>7 DEF TypeOK
<1>8. Lineage'
  <2>1. ASSUME NEW n \in DOMAIN ops
        PROVE  /\ ops'[n].ancestors \subseteq DOMAIN ops /\ {0, n} \subseteq ops'[n].ancestors
               /\ \A a \in ops'[n].ancestors : ops'[a].ancestors \subseteq ops'[n].ancestors
    <3>1. ops[n].ancestors \subseteq DOMAIN ops
      BY DEF IInv, TypeOK
    <3>2. /\ {0, n} \subseteq ops[n].ancestors
          /\ \A a \in ops[n].ancestors : ops[a].ancestors \subseteq ops[n].ancestors
      BY DEF IInv, Lineage
    <3>. QED BY <1>1, <3>1, <3>2
  <2>2. /\ {0, id} \subseteq ops'[id].ancestors
        /\ \A a \in ops'[id].ancestors : ops'[a].ancestors \subseteq ops'[id].ancestors
    <3>1. 0 \in Known /\ \A a \in Known : ops'[a].ancestors \subseteq Known
      BY <1>1, <1>2 DEF IInv, Lineage, Known
    <3>. QED BY <1>1, <1>3, <3>1
  <2>. QED BY <1>1, <2>1, <2>2 DEF Lineage
<1>9. MemoryAhead'
  <2>1. disk'.head \in Known'
    BY <1>2, <1>6 DEF IInv, MemoryAhead, Begin
  <2>2. \A o \in Known : KeyOf(o)' = KeyOf(o)
    BY <1>1, <1>2 DEF KeyOf
  <2>3. log'.keys = {KeyOf(o)' : o \in Known' \ {0}}
    <3>1. KeyOf(id)' = [caller |-> c, key |-> op.key, op |-> id]
      BY <1>1, <1>3 DEF KeyOf
    <3>2. log.keys = {KeyOf(o)' : o \in Known \ {0}}
      BY <1>2, <2>2 DEF IInv, MemoryAhead
    <3>3. CASE got = id
      <4>1. log'.keys = log.keys \cup {[caller |-> c, key |-> op.key, op |-> id]}
        BY <3>3 DEF Begin, op
      <4>. QED BY <1>1, <1>6, <3>1, <3>2, <3>3, <4>1
    <3>4. CASE got # id
      BY <1>6, <3>2, <3>4 DEF Begin
    <3>. QED BY <3>3, <3>4
  <2>4. OncePerKey(Known)'
    BY <1>1, <1>2, <1>3, <1>5, <1>6 DEF IInv, MemoryAhead, OncePerKey
  <2>. QED BY <2>1, <2>3, <2>4 DEF MemoryAhead
<1>10. BatchShort' /\ CallOpen'
  BY <1>1, <1>2, <1>3, <1>4, <1>6 DEF Begin, BatchShort, CallOpen, Busy
<1>11. NothingLost'
  <2>. SUFFICES ASSUME fails = 0 PROVE NothingLost!2'
    BY DEF NothingLost, Begin
  <2>1. NothingDangles'
    <3>1. NothingDangles /\ disk' = disk
      BY DEF IInv, NothingLost, Begin
    <3>2. \A o \in Logged : ops'[o] = ops[o]
      BY <1>1, <1>2
    <3>. QED BY <1>2, <3>1, <3>2 DEF NothingDangles
  <2>2. \A o \in Known : StoredFor(o)' \subseteq disk'.objects \cup batch'
    BY <1>1, <1>2 DEF IInv, NothingLost, StoredFor, Begin
  <2>3. PutObject(id) \in batch' /\ (got = id => StoredFor(id)' \subseteq batch')
    BY <1>1 DEF Begin, StoredFor, op
  <2>. QED BY <1>6, <2>1, <2>2, <2>3 DEF Begin, Busy
<1>12. AnswersSurvive' /\ LoggedOnce'
  BY <1>1, <1>2 DEF IInv, AnswersSurvive, LoggedOnce, Begin
<1>13. AnsweredIsIndexed'
  <2>1. disk.index \subseteq DOMAIN ops /\ disk' = disk /\ asked' = asked
    BY DEF IInv, TypeOK, Begin
  <2>. QED BY <1>1, <2>1 DEF IInv, AnsweredIsIndexed
<1>. QED BY <1>7, <1>8, <1>9, <1>10, <1>11, <1>12, <1>13 DEF IInv

\* The stored log is a part of the log in memory, so storing the head loses none.
LEMMA StoredInMemory == IInv /\ Up => Logged \subseteq Known
BY DEF IInv, TypeOK, Lineage, MemoryAhead, Known, Logged

\* The heads are stored when the batch has been: nothing they reach is pending.
LEMMA SetHeadsPreserves ==
  ASSUME IInv, SetHeads
  PROVE  IInv'
<1>1. /\ Logged' = Known /\ Known' = Known /\ Logged \subseteq Logged'
      /\ call.at = "stored" /\ call'.at = "headed" /\ batch = {} /\ Up
  BY StoredInMemory DEF IInv, TypeOK, SetHeads, At, Up, BatchShort, Known, Logged
<1>2. TypeOK'
  BY DEF IInv, TypeOK, SetHeads, Step
<1>3. Lineage' /\ BatchShort'
  BY <1>1 DEF IInv, Lineage, BatchShort, SetHeads
<1>4. MemoryAhead'
  BY <1>1 DEF IInv, TypeOK, MemoryAhead, OncePerKey, Lineage, KeyOf, Up, Known, SetHeads
<1>5. CallOpen'
  BY <1>1 DEF IInv, TypeOK, CallOpen, Busy, SetHeads
<1>6. NothingLost'
  BY <1>1 DEF IInv, TypeOK, NothingLost, NothingDangles, StoredFor, Busy, Up, SetHeads
<1>7. AnswersSurvive' /\ LoggedOnce' /\ AnsweredIsIndexed'
  BY <1>1 DEF IInv, TypeOK, AnswersSurvive, LoggedOnce, MemoryAhead, OncePerKey,
              AnsweredIsIndexed, SetHeads
<1>. QED BY <1>2, <1>3, <1>4, <1>5, <1>6, <1>7 DEF IInv

\* The other writes and the answer touch neither the ops nor the log.
LEMMA WritesPreserve ==
  ASSUME IInv, EndBatch \/ Index \/ PutKey \/ Truncate \/ Save \/ Answer
  PROVE  IInv'
<1>0. 0 \in DOMAIN ops /\ UNCHANGED <<ops, log, crashes, fails>>
  BY ZeroMade DEF IInv, EndBatch, Index, PutKey, Truncate, Save, Answer
<1>1. CASE EndBatch
  <2>. USE <1>1 DEF IInv, TypeOK, EndBatch, At
  <2>1. TypeOK' /\ Lineage' /\ BatchShort'
    BY DEF Step, Lineage, BatchShort
  <2>2. MemoryAhead'
    BY DEF MemoryAhead, OncePerKey, KeyOf, Known, Up
  <2>3. CallOpen'
    BY DEF CallOpen, Busy, Known, Logged
  <2>4. NothingLost'
    BY DEF NothingLost, NothingDangles, StoredFor, Known, Busy, Up, Logged
  <2>5. AnswersSurvive' /\ LoggedOnce' /\ AnsweredIsIndexed'
    BY DEF AnswersSurvive, LoggedOnce, AnsweredIsIndexed, Logged
  <2>. QED BY <2>1, <2>2, <2>3, <2>4, <2>5
<1>2. CASE Index
  <2>. USE <1>2 DEF IInv, TypeOK, Index, At
  <2>1. TypeOK' /\ Lineage' /\ BatchShort'
    BY DEF Step, Lineage, BatchShort
  <2>2. MemoryAhead'
    BY DEF MemoryAhead, OncePerKey, KeyOf, Known, Up
  <2>3. CallOpen'
    BY DEF CallOpen, Busy, Known, Logged
  <2>4. NothingLost'
    BY DEF NothingLost, NothingDangles, StoredFor, Known, Busy, Up, Logged, BatchShort
  <2>5. AnswersSurvive' /\ LoggedOnce' /\ AnsweredIsIndexed'
    <3>1. disk'.head = disk.head /\ disk.index \subseteq disk'.index
      OBVIOUS
    <3>2. asked' = asked /\ ops' = ops
      OBVIOUS
    <3>. HIDE DEF TypeOK, Index
    <3>. QED BY <3>1, <3>2 DEF AnswersSurvive, LoggedOnce, AnsweredIsIndexed, Logged
  <2>. QED BY <2>1, <2>2, <2>3, <2>4, <2>5
<1>3. CASE PutKey
  <2>. USE <1>3 DEF IInv, TypeOK, PutKey, At
  <2>1. TypeOK'
    <3>1. [caller |-> call.caller, key |-> ops[call.try].key, op |-> call.got]
            \in [caller : Caller \cup {"nobody"}, key : Nat, op : DOMAIN ops]
      OBVIOUS
    <3>. QED BY <3>1 DEF Step
  <2>2. Lineage' /\ BatchShort'
    BY DEF Lineage, BatchShort
  <2>3. MemoryAhead'
    BY DEF MemoryAhead, OncePerKey, KeyOf, Known, Up
  <2>4. CallOpen'
    BY DEF CallOpen, Busy, Known, Logged
  <2>5. NothingLost'
    BY DEF NothingLost, NothingDangles, StoredFor, Known, Busy, Up, Logged
  <2>6. AnswersSurvive' /\ LoggedOnce' /\ AnsweredIsIndexed'
    BY DEF AnswersSurvive, LoggedOnce, AnsweredIsIndexed, Logged
  <2>. QED BY <2>1, <2>2, <2>3, <2>4, <2>5, <2>6
<1>4. CASE Truncate
  <2>. USE <1>4 DEF IInv, TypeOK, Truncate, At
  <2>0. call.caller \in Caller /\ call.got \in Logged /\ batch = {}
    BY DEF CallOpen, Busy, BatchShort
  <2>1. TypeOK' /\ Lineage' /\ BatchShort'
    BY DEF Step, Lineage, BatchShort, Revision
  <2>2. MemoryAhead'
    BY DEF MemoryAhead, OncePerKey, KeyOf, Known, Up
  <2>3. CallOpen'
    BY DEF CallOpen, Busy, Known, Logged
  <2>4. fails = 0 => Revision = call.got
    BY <2>0 DEF NothingLost, NothingDangles, Revision, Readable
  <2>5. NothingLost'
    BY <2>0, <2>4 DEF NothingLost, NothingDangles, StoredFor, Known, Busy, Up, Logged
  <2>6. AnswersSurvive' /\ LoggedOnce' /\ AnsweredIsIndexed'
    BY DEF AnswersSurvive, LoggedOnce, AnsweredIsIndexed, Logged
  <2>. QED BY <2>1, <2>2, <2>3, <2>5, <2>6
<1>5. CASE Save
  <2>. USE <1>5 DEF IInv, TypeOK, Save, At
  <2>1. TypeOK' /\ Lineage' /\ BatchShort'
    BY DEF Step, Lineage, BatchShort, CallOpen, Busy
  <2>2. MemoryAhead'
    BY DEF MemoryAhead, OncePerKey, KeyOf, Known, Up
  <2>3. CallOpen'
    BY DEF CallOpen, Busy, Known, Logged
  <2>4. NothingLost'
    BY DEF NothingLost, NothingDangles, StoredFor, Known, Busy, Up, Logged
  <2>5. AnswersSurvive' /\ LoggedOnce' /\ AnsweredIsIndexed'
    BY DEF AnswersSurvive, LoggedOnce, AnsweredIsIndexed, Logged
  <2>. QED BY <2>1, <2>2, <2>3, <2>4, <2>5
<1>6. CASE Answer
  <2>. USE <1>0, <1>6 DEF IInv, TypeOK, Answer, Answered, NoCall, At
  <2>0. /\ call.caller \in Caller /\ call.got \in Logged
        /\ ops[call.try].caller = call.caller
        /\ ops[call.try].key = asked[call.caller].n
        /\ asked[call.caller].verb = "attest" => call.try \in disk.index
    BY DEF CallOpen, Busy
  <2>1. \A c \in Caller : /\ c # call.caller => asked'[c] = asked[c]
                          /\ asked'[c].n = asked[c].n /\ asked'[c].verb = asked[c].verb
    BY <2>0
  <2>2. asked'[call.caller].got = call.got
    BY <2>0
  <2>3. TypeOK'
    <3>1. asked' \in [Caller -> [n : Nat, verb : Verb, open : BOOLEAN, got : DOMAIN ops]]
      <4>1. [n |-> asked[call.caller].n, verb |-> asked[call.caller].verb, open |-> FALSE,
             got |-> call.got] \in [n : Nat, verb : Verb, open : BOOLEAN, got : DOMAIN ops]
        BY <2>0
      <4>. QED BY <2>0, <4>1
    <3>2. call' \in [at : Step, caller : Caller \cup {"nobody"}, try : DOMAIN ops,
                     got : DOMAIN ops]
      BY DEF Step
    <3>. QED BY <3>1, <3>2
  <2>4. Lineage' /\ BatchShort'
    BY DEF Lineage, BatchShort
  <2>5. MemoryAhead'
    BY DEF MemoryAhead, OncePerKey, KeyOf, Known, Up
  <2>6. CallOpen' /\ LoggedOnce'
    BY DEF CallOpen, Busy, LoggedOnce, Logged
  <2>7. NothingLost'
    BY DEF NothingLost, NothingDangles, StoredFor, Known, Busy, Up, Logged, BatchShort
  <2>8. AnswersSurvive'
    BY <2>0, <2>1, <2>2 DEF AnswersSurvive, Logged
  <2>9. AnsweredIsIndexed'
    BY <2>0, <2>1 DEF AnsweredIsIndexed
  <2>. QED BY <2>3, <2>4, <2>5, <2>6, <2>7, <2>8, <2>9
<1>. QED BY <1>1, <1>2, <1>3, <1>4, <1>5, <1>6

\* A failure and a crash leave the disk as it is, and opening reads it back.
LEMMA FailuresPreserve ==
  ASSUME IInv, Fail \/ Crash \/ Open
  PROVE  IInv'
<1>0. 0 \in DOMAIN ops /\ UNCHANGED <<ops, disk, asked>>
  BY ZeroMade DEF IInv, Fail, Crash, Open
<1>. USE <1>0 DEF IInv, NoCall
<1>1. Lineage' /\ BatchShort' /\ CallOpen'
  BY DEF Lineage, BatchShort, CallOpen, Busy, Fail, Crash, Open, At
<1>2. AnswersSurvive' /\ LoggedOnce' /\ AnsweredIsIndexed'
  BY DEF AnswersSurvive, LoggedOnce, AnsweredIsIndexed, Logged
<1>3. CASE Fail
  <2>1. TypeOK'
    <3>1. call' \in [at : Step, caller : Caller \cup {"nobody"}, try : DOMAIN ops,
                     got : DOMAIN ops]
      BY <1>3 DEF Fail, Step
    <3>2. current' \in [Caller -> DOMAIN ops \cup {Torn}]
      <4>1. Revision \in DOMAIN ops
        BY DEF TypeOK, Revision
      <4>. QED BY <1>3, <4>1 DEF Fail, TypeOK
    <3>3. fails' \in Nat /\ crashes' \in Nat /\ batch' \subseteq Object /\ log' = log
      BY <1>3 DEF Fail, TypeOK
    <3>. QED BY <3>1, <3>2, <3>3 DEF TypeOK
  <2>2. MemoryAhead'
    BY <1>3 DEF Fail, MemoryAhead, OncePerKey, KeyOf, Known, Up
  <2>3. NothingLost'
    BY <1>3 DEF Fail, NothingLost, TypeOK
  <2>. QED BY <1>1, <1>2, <2>1, <2>2, <2>3
<1>4. CASE Crash
  <2>1. TypeOK'
    <3>1. call' \in [at : Step, caller : Caller \cup {"nobody"}, try : DOMAIN ops,
                     got : DOMAIN ops]
      BY <1>4 DEF Crash, Step
    <3>2. /\ fails' \in Nat /\ crashes' \in Nat /\ batch' \subseteq Object
          /\ UNCHANGED <<log, current>>
      BY <1>4 DEF Crash, TypeOK
    <3>. QED BY <3>1, <3>2 DEF TypeOK
  <2>2. MemoryAhead' /\ NothingLost'
    BY <1>4 DEF Crash, MemoryAhead, NothingLost, NothingDangles, Busy, Up, Logged
  <2>. QED BY <1>1, <1>2, <2>1, <2>2
<1>5. CASE Open
  <2>0. log'.head = disk.head /\ Known' = Logged /\ fails' = fails
    BY <1>5 DEF Open, Rebuilt, Known, Logged
  <2>1. TypeOK'
    <3>1. \A o \in DOMAIN ops : KeyOf(o) \in [caller : Caller \cup {"nobody"}, key : Nat,
                                              op : DOMAIN ops]
      BY DEF KeyOf, TypeOK
    <3>2. Logged \subseteq DOMAIN ops
      BY DEF Logged, TypeOK
    <3>3. Rebuilt \in [head : DOMAIN ops, keys : SUBSET [caller : Caller \cup {"nobody"},
                                                        key : Nat, op : DOMAIN ops]]
      BY <3>1, <3>2 DEF Rebuilt, Logged, TypeOK
    <3>. QED BY <1>5, <3>3 DEF Open, TypeOK, Step
  <2>2. MemoryAhead'
    <3>1. disk.head \in Logged
      BY DEF Logged, Lineage, TypeOK
    <3>2. log'.keys = {KeyOf(o)' : o \in Logged \ {0}}
      BY <1>5 DEF Open, Rebuilt, KeyOf, Logged
    <3>. QED BY <2>0, <3>1, <3>2 DEF MemoryAhead, OncePerKey, LoggedOnce, Logged
  <2>3. NothingLost'
    BY <1>5, <2>0 DEF Open, NothingLost, NothingDangles, StoredFor, Busy, Logged
  <2>. QED BY <1>1, <1>2, <2>1, <2>2, <2>3
<1>. QED BY <1>3, <1>4, <1>5

\* The strengthened invariant holds in every reachable state: it joins what the
\* disk holds to what memory counts on, write by write of Repo::commit_op.
THEOREM Inductive == Spec => []IInv
<1>1. IInv /\ [Next]_vars => IInv'
  <2>. SUFFICES ASSUME IInv, [Next]_vars PROVE IInv'
    OBVIOUS
  <2>1. CASE Next
    BY <2>1, AskPreserves, BeginPreserves, SetHeadsPreserves, WritesPreserve, FailuresPreserve
       DEF Next
  <2>2. CASE UNCHANGED vars
    <3>. USE <2>2 DEF vars, IInv
    <3>1. TypeOK' /\ Lineage' /\ BatchShort'
      BY DEF TypeOK, Lineage, BatchShort
    <3>2. MemoryAhead'
      BY DEF MemoryAhead, OncePerKey, KeyOf, Known, Up
    <3>3. CallOpen'
      BY DEF CallOpen, Busy, Known, Logged
    <3>4. NothingLost'
      BY DEF NothingLost, NothingDangles, StoredFor, Known, Busy, Up, Logged
    <3>5. AnswersSurvive' /\ LoggedOnce' /\ AnsweredIsIndexed'
      BY DEF AnswersSurvive, LoggedOnce, AnsweredIsIndexed, Logged
    <3>. QED BY <3>1, <3>2, <3>3, <3>4, <3>5
  <2>. QED BY <2>1, <2>2
<1>. QED BY InitOK, <1>1, PTL DEF Spec

\* Every workspace, head, key and index entry names an attempt that was made,
\* whatever a crash left of the calls (the type invariant).
THEOREM TypeCorrect == Spec => []TypeOK
<1>1. IInv => TypeOK
  BY DEF IInv
<1>. QED BY Inductive, <1>1, PTL

\* However often and wherever Repo::commit_op is interrupted by crashes, the disk
\* names only what it holds, so Repo::open succeeds.
THEOREM CrashSafe == Spec => []CrashesDangleNothing
<1>1. IInv => CrashesDangleNothing
  BY DEF IInv, NothingLost, CrashesDangleNothing
<1>. QED BY Inductive, <1>1, PTL

\* An answered op stays in the stored log, across crashes and failed writes.
THEOREM AnswersDurable == Spec => []AnswersSurvive
<1>1. IInv => AnswersSurvive
  BY DEF IInv
<1>. QED BY Inductive, <1>1, PTL

\* A call repeated across crashes and failed writes is logged at most once.
THEOREM RetriesOnce == Spec => []LoggedOnce
<1>1. IInv => LoggedOnce
  BY DEF IInv
<1>. QED BY Inductive, <1>1, PTL

\* An answered attestation is in the index the standard reads.
THEOREM AnswersIndexed == Spec => []AnsweredIsIndexed
<1>1. IInv => AnsweredIsIndexed
  BY DEF IInv
<1>. QED BY Inductive, <1>1, PTL

\* No step takes an op out of the stored log: set_heads only ever moves it
\* forward, because open starts memory at the stored head.
THEOREM StoredLogGrows == Spec => LogOnlyGrows
<1>1. IInv /\ [Next]_vars => [Logged \subseteq Logged']_vars
  <2>. SUFFICES ASSUME IInv, Next PROVE Logged \subseteq Logged'
    BY DEF vars
  <2>1. ASSUME NEW c \in Caller, NEW id \in Attempt \ {0}, NEW got \in Attempt,
               Begin(c, id, got)
        PROVE  Logged \subseteq Logged'
    <3>1. disk.head \in DOMAIN ops /\ id \notin DOMAIN ops
      BY <2>1 DEF IInv, TypeOK, Begin, Attempt
    <3>. QED BY <2>1, <3>1 DEF Begin, Logged
  <2>2. CASE SetHeads
    BY <2>2, StoredInMemory DEF IInv, TypeOK, SetHeads, At, Up, Known, Logged
  <2>3. ASSUME ops' = ops, disk'.head = disk.head
        PROVE  Logged \subseteq Logged'
    BY <2>3 DEF Logged
  <2>. QED BY <2>1, <2>2, <2>3
         DEF Next, IInv, TypeOK, Ask, EndBatch, Index, PutKey, Truncate, Save, Answer, Fail, Crash,
             Open
<1>. QED BY Inductive, <1>1, PTL DEF Spec, LogOnlyGrows

-----------------------------------------------------------------------------
(***************************************************************************)
(* Workspaces.  A snapshot moves the change in the log first and the       *)
(* workspace last, with crashes, failed writes and retries between, so the *)
(* two agree again only once the call is answered.                         *)
(***************************************************************************)

\* An op answers a call its caller has made, and the call it waits for is the last.
OpsOfCalls ==
  \A o \in DOMAIN ops \ {0} :
    /\ ops[o].caller \in Caller
    /\ ops[o].key <= asked[ops[o].caller].n
    /\ ops[o].key = asked[ops[o].caller].n => ops[o].verb = asked[ops[o].caller].verb

SnapshotOf(c, o) == o # 0 /\ ops[o].verb = "snapshot" /\ ops[o].caller = c

\* A change is at the last snapshot its caller made below.
ViewIsLatest ==
  \A h \in DOMAIN ops, c \in Caller :
    /\ ops[h].view[c] # 0 => ops[h].view[c] \in ops[h].ancestors /\ SnapshotOf(c, ops[h].view[c])
    /\ \A o \in ops[h].ancestors :
         SnapshotOf(c, o) => ops[h].view[c] # 0 /\ ops[o].key <= ops[ops[h].view[c]].key

\* The views that are stored name attempts that were made.
ViewsMade ==
  \A view \in [Caller -> Attempt] :
    ViewObject(view) \in disk.objects \cup batch => \A c \in Caller : view[c] \in DOMAIN ops

\* What is pending is what the attempt puts, and a snapshot's view is new.
PendingOfTry ==
  call.at = "accepted" =>
    /\ \A o \in DOMAIN ops : OpObject(o) \in batch => o = call.try
    /\ call.try \in Known => log.head = call.try
    /\ ops[call.try].verb = "snapshot" => ViewObject(ops[call.try].view) \notin disk.objects

\* The op of a snapshot can be read, or its put was lost and with it the view of
\* the head: then no call begins until the log is rebuilt.
SnapshotsHeld ==
  Up => \A o \in Known : ops[o].verb = "snapshot" =>
          \/ OpObject(o) \in disk.objects \cup batch
          \/ Idle /\ o = log.head /\ ViewObject(ops[o].view) \notin disk.objects

\* An op that is only in memory is that of a call its caller still repeats.
AheadIsOpen ==
  Up => \A o \in Known \ Logged :
          asked[ops[o].caller].open /\ ops[o].key = asked[ops[o].caller].n

\* The call is answered with an op of its own, and the workspace moves to it.
GotOfCall ==
  Busy => /\ call.got # 0
          /\ ops[call.got].caller = call.caller
          /\ ops[call.got].key = asked[call.caller].n
          /\ call.at \in {"truncated", "saved"} => current[call.caller] = call.got
          /\ call.at = "saved" => disk.workspace[call.caller] = call.got

\* A caller that does not wait for a snapshot has its workspace at its change.
Settled(c) == ~(asked[c].open /\ asked[c].verb = "snapshot")
AtChange ==
  \A c \in Caller : Settled(c) =>
    /\ disk.workspace[c] \in {Torn, ops[disk.head].view[c]}
    /\ Up => disk.workspace[c] = current[c]

Follows ==
  OpsOfCalls /\ ViewIsLatest /\ ViewsMade /\ PendingOfTry /\ SnapshotsHeld /\ AheadIsOpen
  /\ GotOfCall /\ AtChange

-----------------------------------------------------------------------------
\* The types the leaves below need.
LEMMA Types ==
  ASSUME TypeOK
  PROVE  /\ 0 \in DOMAIN ops /\ DOMAIN ops \subseteq Nat
         /\ log.head \in DOMAIN ops /\ disk.head \in DOMAIN ops
         /\ Known \subseteq DOMAIN ops /\ Logged \subseteq DOMAIN ops
         /\ call.try \in DOMAIN ops /\ call.got \in DOMAIN ops
         /\ \A n \in DOMAIN ops : /\ ops[n].ancestors \subseteq DOMAIN ops
                                  /\ ops[n].key \in Nat
                                  /\ ops[n].view \in [Caller -> DOMAIN ops]
         /\ \A c \in Caller : asked[c].n \in Nat
<1>1. DOMAIN ops \subseteq Nat
  BY DEF TypeOK, Attempt
<1>. QED BY <1>1, ZeroMade DEF TypeOK, Known, Logged

\* A caller that waits for no snapshot has its change where the stored head has it.
LEMMA HeadsAgree ==
  ASSUME IInv, OpsOfCalls, ViewIsLatest, AheadIsOpen, Up, NEW c \in Caller, Settled(c)
  PROVE  ops[log.head].view[c] = ops[disk.head].view[c]
<1>. DEFINE v == ops[log.head].view[c]
            w == ops[disk.head].view[c]
<1>0. TypeOK /\ Lineage /\ OncePerKey(Known)
  BY DEF IInv, MemoryAhead
<1>1. Logged \subseteq Known
  BY StoredInMemory
<1>2. ASSUME v # 0
      PROVE  v \in Logged
  <2>1. v \in Known /\ SnapshotOf(c, v)
    BY <1>0, <1>2, Types DEF ViewIsLatest, Known
  <2>2. ASSUME v \notin Logged
        PROVE  asked[c].open /\ asked[c].verb = "snapshot"
    BY <1>0, <2>1, <2>2, Types DEF SnapshotOf, AheadIsOpen, OpsOfCalls
  <2>. QED BY <2>2 DEF Settled
<1>3. CASE v # 0
  <2>1. /\ SnapshotOf(c, v) /\ w # 0 /\ ops[v].key <= ops[w].key
    BY <1>0, <1>2, <1>3, Types DEF ViewIsLatest, Known, Logged
  <2>2. SnapshotOf(c, w) /\ w \in Logged /\ w \in Known
    BY <1>0, <1>1, <2>1, Types DEF ViewIsLatest, Logged
  <2>3. ops[w].key <= ops[v].key
    BY <1>0, <2>2, Types DEF ViewIsLatest, Known
  <2>4. v \in Known
    BY <1>1, <1>2, <1>3
  <2>5. ops[v].key \in Nat /\ ops[w].key \in Nat
    BY <1>0, <2>2, <2>4, Types
  <2>6. ops[w].key = ops[v].key
    <3>. DEFINE m == ops[v].key
                n == ops[w].key
    <3>1. m \in Nat /\ n \in Nat /\ m <= n /\ n <= m
      BY <2>1, <2>3, <2>5
    <3>. HIDE DEF m, n
    <3>. QED BY <3>1 DEF m, n
  <2>. QED BY <1>0, <1>3, <2>1, <2>2, <2>4, <2>6 DEF OncePerKey, SnapshotOf
<1>4. CASE v = 0
  <2>1. ASSUME w # 0
        PROVE  FALSE
    <3>1. SnapshotOf(c, w) /\ w \in Known
      BY <1>0, <1>1, <2>1, Types DEF ViewIsLatest, Logged
    <3>. QED BY <1>0, <1>4, <3>1, Types DEF ViewIsLatest, Known
  <2>. QED BY <1>4, <2>1
<1>. QED BY <1>3, <1>4

\* Init and the first snapshots leave every workspace at its change.
LEMMA FollowsInit == Init => Follows
<1>. SUFFICES ASSUME Init PROVE Follows
  OBVIOUS
<1>0. DOMAIN ops = {0} /\ ops[0].verb = "init" /\ 0..0 = {0} /\ ops[0].ancestors = {0}
      /\ ops[0].view = [c \in Caller |-> 0]
  BY DEF Init
<1>1. OpsOfCalls /\ ViewIsLatest
  BY <1>0 DEF OpsOfCalls, ViewIsLatest, SnapshotOf
<1>2. ViewsMade /\ PendingOfTry
  BY <1>0 DEF Init, ViewsMade, PendingOfTry, ViewObject, PutObject, OpObject, NoCall
<1>3. SnapshotsHeld /\ AheadIsOpen /\ GotOfCall
  BY <1>0 DEF Init, SnapshotsHeld, AheadIsOpen, GotOfCall, Known, Logged, Busy, NoCall
<1>4. AtChange
  BY <1>0 DEF Init, AtChange
<1>. QED BY <1>1, <1>2, <1>3, <1>4 DEF Follows

\* Asking makes the keys of the caller's ops older ones.
LEMMA FollowsAsk ==
  ASSUME IInv, Follows, NEW c \in Caller, NEW verb \in {"snapshot", "attest"}, Ask(c, verb)
  PROVE  Follows'
<1>0. TypeOK
  BY DEF IInv
<1>1. /\ asked'[c].n = asked[c].n + 1 /\ asked'[c].open /\ asked'[c].verb = verb
      /\ \A d \in Caller : d # c => asked'[d] = asked[d]
      /\ ~asked[c].open
  BY <1>0 DEF Ask, TypeOK
<1>2. UNCHANGED <<ops, disk, batch, log, current, call>>
  BY DEF Ask
<1>3. OpsOfCalls'
  BY <1>0, <1>1, <1>2, Types DEF OpsOfCalls, Follows
<1>4. ViewIsLatest' /\ ViewsMade' /\ PendingOfTry' /\ SnapshotsHeld'
  BY <1>2 DEF Follows, ViewIsLatest, ViewsMade, PendingOfTry, SnapshotsHeld, SnapshotOf, Known,
              Up, Idle
<1>5. AheadIsOpen'
  <2>1. ASSUME Up, NEW o \in Known \ Logged
        PROVE  ops[o].caller \in Caller \ {c}
    <3>1. o \in DOMAIN ops \ {0}
      BY <1>0, Types DEF IInv, Lineage, Logged
    <3>. QED BY <1>1, <2>1, <3>1 DEF Follows, AheadIsOpen, OpsOfCalls
  <2>. QED BY <1>1, <1>2, <2>1 DEF Follows, AheadIsOpen, Known, Logged, Up
<1>6. GotOfCall'
  BY <1>1, <1>2 DEF Follows, GotOfCall, IInv, CallOpen, Busy
<1>7. AtChange'
  BY <1>1, <1>2 DEF Follows, AtChange, Settled, Up
<1>. QED BY <1>3, <1>4, <1>5, <1>6, <1>7 DEF Follows

\* The op of an attempt is its caller's latest, and a snapshot's view is new.
LEMMA FollowsBegin ==
  ASSUME IInv, IInv', Follows, NEW c \in Caller, NEW id \in Attempt \ {0}, NEW got \in Attempt,
         Begin(c, id, got)
  PROVE  Follows'
<1>. DEFINE op == BuiltOp(c, id)
<1>0. TypeOK /\ TypeOK' /\ Lineage /\ MemoryAhead /\ MemoryAhead'
  BY DEF IInv
<1>1. /\ id \notin DOMAIN ops /\ id # 0
      /\ DOMAIN ops' = DOMAIN ops \cup {id}
      /\ ops'[id] = op
      /\ \A n \in DOMAIN ops : ops'[n] = ops[n]
  <2>1. DOMAIN ops = 0..(id - 1) /\ id \in Nat \ {0}
    BY DurabilityAssumption DEF Begin, Attempt
  <2>2. ops' = [n \in DOMAIN ops \cup {id} |-> IF n = id THEN op ELSE ops[n]]
    BY DEF Begin
  <2>3. id \notin 0..(id - 1)
    BY <2>1
  <2>. HIDE DEF op
  <2>. QED BY <2>1, <2>2, <2>3
<1>2. /\ op.caller = c /\ op.key = asked[c].n /\ op.verb = asked[c].verb
      /\ op.ancestors = Known \cup {id}
      /\ op.view = IF asked[c].verb = "snapshot" THEN [ops[log.head].view EXCEPT ![c] = id]
                   ELSE ops[log.head].view
  BY DEF BuiltOp, Known
<1>3. /\ Up /\ Idle /\ asked[c].open /\ Up' /\ ~Idle'
      /\ batch' = batch \cup {PutObject(id), ViewObject(op.view)}
                        \cup (IF got = id THEN {OpObject(id)} ELSE {})
      /\ call' = [at |-> "accepted", caller |-> c, try |-> id, got |-> got]
      /\ UNCHANGED <<disk, current, asked>>
      /\ log'.head = IF got = id THEN id ELSE log.head
      /\ Readable(ViewObject(ops[log.head].view))
      /\ batch = {}
  BY DEF Begin, Idle, Up, IInv, BatchShort
<1>4. Known' = (IF got = id THEN Known \cup {id} ELSE Known) /\ Logged' = Logged
  BY <1>0, <1>1, <1>2, <1>3, Types DEF Known, Logged
<1>5. got = id \/ (got \in Known \ {0} /\ ops[got].caller = c /\ ops[got].key = asked[c].n)
  BY <1>0, Types DEF Begin, Earlier, MemoryAhead, KeyOf, Up, Idle
<1>. HIDE DEF op
<1>6. OpsOfCalls'
  BY <1>0, <1>1, <1>2, <1>3, Types DEF Follows, OpsOfCalls
<1>7. ViewIsLatest'
  <2>. SUFFICES ASSUME NEW h \in DOMAIN ops', NEW d \in Caller
                PROVE  /\ ops'[h].view[d] # 0 => ops'[h].view[d] \in ops'[h].ancestors
                                                 /\ SnapshotOf(d, ops[h].view[d])'
                       /\ \A o \in ops'[h].ancestors : SnapshotOf(d, o)' =>
                            ops'[h].view[d] # 0 /\ ops'[o].key <= ops'[ops'[h].view[d]].key
    BY DEF ViewIsLatest
  <2>1. CASE h # id
    BY <1>0, <1>1, <2>1, Types DEF Follows, ViewIsLatest, SnapshotOf
  <2>2. \A o \in Known : ops'[o] = ops[o] /\ (SnapshotOf(d, o)' <=> SnapshotOf(d, o))
    BY <1>0, <1>1, Types DEF SnapshotOf
  <2>3. /\ ops[log.head].view[d] # 0 => ops[log.head].view[d] \in Known
                                         /\ SnapshotOf(d, ops[log.head].view[d])
        /\ \A o \in Known : SnapshotOf(d, o) =>
             ops[log.head].view[d] # 0 /\ ops[o].key <= ops[ops[log.head].view[d]].key
    BY <1>0, Types DEF Follows, ViewIsLatest, Known
  <2>4. ops[log.head].view \in [Caller -> DOMAIN ops]
    BY <1>0, Types
  <2>5. CASE h = id /\ d = c /\ asked[c].verb = "snapshot"
    <3>1. ops'[h].view[d] = id /\ SnapshotOf(d, id)'
      BY <1>1, <1>2, <2>4, <2>5 DEF SnapshotOf
    <3>2. \A o \in Known : SnapshotOf(d, o) => ops[o].key <= asked[c].n
      BY <1>0, <2>5, Types DEF Follows, OpsOfCalls, SnapshotOf
    <3>3. asked[c].n \in Nat /\ ops'[id].key = asked[c].n
      BY <1>0, <1>1, <1>2, Types
    <3>. QED BY <1>1, <1>2, <2>2, <2>5, <3>1, <3>2, <3>3
  <2>6. CASE h = id /\ ~(d = c /\ asked[c].verb = "snapshot")
    <3>1. ops'[h].view[d] = ops[log.head].view[d] /\ ~SnapshotOf(d, id)'
      BY <1>1, <1>2, <2>4, <2>6 DEF SnapshotOf
    <3>. QED BY <1>1, <1>2, <2>2, <2>3, <2>6, <3>1
  <2>. QED BY <2>1, <2>5, <2>6
<1>8. op.view \in [Caller -> DOMAIN ops']
  BY <1>0, <1>1, <1>2, Types
<1>9. ViewsMade'
  <2>. SUFFICES ASSUME NEW view \in [Caller -> Attempt],
                       ViewObject(view) \in disk'.objects \cup batch', NEW d \in Caller
                PROVE  view[d] \in DOMAIN ops'
    BY DEF ViewsMade
  <2>1. ViewObject(view) \in disk.objects \cup batch \/ view = op.view
    BY <1>3 DEF ViewObject, PutObject, OpObject
  <2>. QED BY <1>1, <1>8, <2>1 DEF Follows, ViewsMade
<1>10. PendingOfTry'
  <2>1. \A o \in DOMAIN ops' : OpObject(o) \in batch' => o = id
    BY <1>3 DEF ViewObject, PutObject, OpObject
  <2>2. id \in Known' => log'.head = id
    BY <1>0, <1>1, <1>3, <1>4, Types
  <2>3. ASSUME op.verb = "snapshot", ViewObject(op.view) \in disk.objects
        PROVE  FALSE
    <3>0. DOMAIN ops' \subseteq Attempt
      <4>1. PICK k \in Attempt : DOMAIN ops' = 0..k
        BY <1>0 DEF TypeOK
      <4>. QED BY <4>1, DurabilityAssumption DEF Attempt
    <3>1. op.view \in [Caller -> Attempt] /\ op.view[c] = id
      <4>1. op.view = [ops[log.head].view EXCEPT ![c] = id]
        BY <1>2, <2>3
      <4>2. ops[log.head].view \in [Caller -> DOMAIN ops]
        BY <1>0, Types
      <4>. QED BY <1>8, <3>0, <4>1, <4>2
    <3>. QED BY <1>1, <2>3, <3>1 DEF Follows, ViewsMade
  <2>. QED BY <1>1, <1>3, <2>1, <2>2, <2>3 DEF PendingOfTry
<1>11. SnapshotsHeld'
  <2>. SUFFICES ASSUME NEW o \in Known', ops'[o].verb = "snapshot"
                PROVE  OpObject(o) \in disk'.objects \cup batch'
    BY DEF SnapshotsHeld
  <2>1. CASE o = id
    BY <1>0, <1>1, <1>3, <1>4, <2>1, Types
  <2>2. CASE o \in Known
    BY <1>0, <1>1, <1>3, <2>2, Types DEF Follows, SnapshotsHeld, Readable
  <2>. QED BY <1>4, <2>1, <2>2
<1>12. AheadIsOpen'
  BY <1>0, <1>1, <1>2, <1>3, <1>4, Types DEF Follows, AheadIsOpen
<1>13. GotOfCall'
  BY <1>0, <1>1, <1>2, <1>3, <1>5, Types DEF GotOfCall, Busy
<1>14. AtChange'
  BY <1>0, <1>1, <1>3, Types DEF Follows, AtChange, Settled, Up
<1>. QED BY <1>6, <1>7, <1>9, <1>10, <1>11, <1>12, <1>13, <1>14 DEF Follows


\* Steps that make no op and ask nothing keep what is said of ops and calls.
LEMMA OpsKept ==
  ASSUME Follows, ops' = ops,
         \A c \in Caller : asked'[c].n = asked[c].n /\ asked'[c].verb = asked[c].verb
  PROVE  OpsOfCalls' /\ ViewIsLatest'
BY DEF Follows, OpsOfCalls, ViewIsLatest, SnapshotOf

\* What was pending is stored: nothing that could be read is lost.
LEMMA FollowsEndBatch ==
  ASSUME IInv, Follows, EndBatch
  PROVE  Follows'
<1>0. TypeOK
  BY DEF IInv
<1>1. /\ UNCHANGED <<ops, log, current, asked>> /\ Up /\ Up' /\ ~Idle /\ batch' = {}
      /\ call.at = "accepted" /\ call' = [call EXCEPT !.at = "stored"]
      /\ disk'.objects = disk.objects \cup batch /\ disk'.head = disk.head
      /\ disk'.workspace = disk.workspace
  BY <1>0 DEF EndBatch, At, Up, Idle, TypeOK
<1>2. /\ call'.at = "stored" /\ call'.caller = call.caller /\ call'.try = call.try
      /\ call'.got = call.got /\ call.at = "accepted"
      /\ Known' = Known /\ Logged' = Logged
  BY <1>0, <1>1 DEF TypeOK, Known, Logged
<1>3. OpsOfCalls' /\ ViewIsLatest'
  BY <1>1, OpsKept
<1>4. ViewsMade' /\ PendingOfTry' /\ SnapshotsHeld'
  BY <1>1, <1>2 DEF Follows, ViewsMade, PendingOfTry, SnapshotsHeld
<1>5. AheadIsOpen' /\ AtChange' /\ GotOfCall'
  BY <1>1, <1>2 DEF Follows, AheadIsOpen, AtChange, GotOfCall, Settled, Busy
<1>. QED BY <1>3, <1>4, <1>5 DEF Follows

\* Storing the head moves no settled caller's change.
LEMMA FollowsSetHeads ==
  ASSUME IInv, Follows, SetHeads
  PROVE  Follows'
<1>0. TypeOK
  BY DEF IInv
<1>1. /\ UNCHANGED <<ops, log, current, asked, batch>> /\ Up /\ Up' /\ ~Idle
      /\ call.at = "stored" /\ call' = [call EXCEPT !.at = "headed"]
      /\ disk'.objects = disk.objects /\ disk'.head = log.head
      /\ disk'.workspace = disk.workspace
  BY <1>0 DEF SetHeads, At, Up, Idle, TypeOK
<1>2. /\ call'.at = "headed" /\ call'.caller = call.caller /\ call'.try = call.try
      /\ call'.got = call.got
      /\ Known' = Known /\ Logged' = Known
  BY <1>0, <1>1 DEF TypeOK, Known, Logged
<1>3. OpsOfCalls' /\ ViewIsLatest'
  BY <1>1, OpsKept
<1>4. ViewsMade' /\ PendingOfTry' /\ SnapshotsHeld'
  BY <1>1, <1>2 DEF Follows, ViewsMade, PendingOfTry, SnapshotsHeld
<1>5. AheadIsOpen' /\ GotOfCall'
  BY <1>1, <1>2 DEF Follows, AheadIsOpen, GotOfCall, Busy
<1>6. AtChange'
  BY <1>1, HeadsAgree DEF Follows, AtChange, Settled
<1>. QED BY <1>3, <1>4, <1>5, <1>6 DEF Follows

\* The entries of the two tables say nothing of workspaces.
LEMMA FollowsTables ==
  ASSUME IInv, Follows, Index \/ PutKey
  PROVE  Follows'
<1>0. TypeOK
  BY DEF IInv
<1>1. /\ UNCHANGED <<ops, log, current, asked, batch>> /\ Up /\ Up' /\ ~Idle
      /\ call.at \in {"headed", "indexed"}
      /\ disk'.objects = disk.objects /\ disk'.head = disk.head
      /\ disk'.workspace = disk.workspace
  BY <1>0 DEF Index, PutKey, At, Up, Idle, TypeOK
<1>2. /\ call'.at \in {"indexed", "committed"}
      /\ call'.caller = call.caller /\ call'.try = call.try /\ call'.got = call.got
      /\ Known' = Known /\ Logged' = Logged
  BY <1>0, <1>1 DEF TypeOK, Index, PutKey, Known, Logged
<1>3. OpsOfCalls' /\ ViewIsLatest'
  BY <1>1, OpsKept
<1>4. ViewsMade' /\ PendingOfTry' /\ SnapshotsHeld'
  BY <1>1, <1>2 DEF Follows, ViewsMade, PendingOfTry, SnapshotsHeld
<1>5. AheadIsOpen' /\ AtChange' /\ GotOfCall'
  BY <1>1, <1>2 DEF Follows, AheadIsOpen, AtChange, GotOfCall, Settled, Busy
<1>. QED BY <1>3, <1>4, <1>5 DEF Follows

\* The op a snapshot is answered with can be read once its batch has ended.
LEMMA RevisionIsGot ==
  ASSUME IInv, Follows, At("committed"), ops[call.try].verb = "snapshot"
  PROVE  /\ Revision = call.got /\ call.caller \in Caller /\ call.got \in DOMAIN ops
         /\ asked[call.caller].open /\ asked[call.caller].verb = "snapshot"
<1>0. TypeOK /\ Busy /\ Up /\ ~Idle
  BY DEF IInv, At, Busy, Up, Idle
<1>1. /\ call.caller \in Caller /\ asked[call.caller].open
      /\ asked[call.caller].verb = "snapshot" /\ call.got \in Known
      /\ ops[call.got].caller = call.caller /\ ops[call.got].key = asked[call.caller].n
      /\ call.got # 0
  BY <1>0 DEF IInv, CallOpen, Follows, GotOfCall
<1>2. ops[call.got].verb = "snapshot"
  BY <1>0, <1>1, Types DEF Follows, OpsOfCalls
<1>3. Readable(OpObject(call.got))
  BY <1>0, <1>1, <1>2 DEF Follows, SnapshotsHeld, Readable
<1>. QED BY <1>0, <1>1, <1>3, Types DEF Revision

\* The workspace moves to the op the call is answered with, its file still torn.
LEMMA FollowsTruncate ==
  ASSUME IInv, Follows, Truncate
  PROVE  Follows'
<1>0. TypeOK
  BY DEF IInv
<1>1. /\ UNCHANGED <<ops, log, asked, batch>> /\ Up /\ Up' /\ ~Idle
      /\ At("committed") /\ call' = [call EXCEPT !.at = "truncated"]
      /\ disk'.objects = disk.objects /\ disk'.head = disk.head
      /\ disk'.workspace = [disk.workspace EXCEPT ![call.caller] = Torn]
      /\ current' = [current EXCEPT ![call.caller] = call.got]
      /\ call.caller \in Caller
      /\ asked[call.caller].open /\ asked[call.caller].verb = "snapshot"
  BY <1>0, RevisionIsGot DEF Truncate, At, Up, Idle, TypeOK
<1>2. /\ call'.at = "truncated" /\ call'.caller = call.caller /\ call'.try = call.try
      /\ call'.got = call.got
      /\ Known' = Known /\ Logged' = Logged
  BY <1>0, <1>1 DEF TypeOK, Known, Logged
<1>3. OpsOfCalls' /\ ViewIsLatest'
  BY <1>1, OpsKept
<1>4. ViewsMade' /\ PendingOfTry' /\ SnapshotsHeld'
  BY <1>1, <1>2 DEF Follows, ViewsMade, PendingOfTry, SnapshotsHeld
<1>5. /\ current'[call.caller] = call.got
      /\ \A c \in Caller \ {call.caller} : /\ current'[c] = current[c]
                                           /\ disk'.workspace[c] = disk.workspace[c]
  BY <1>0, <1>1 DEF TypeOK
<1>6. AheadIsOpen' /\ GotOfCall'
  BY <1>1, <1>2, <1>5 DEF Follows, AheadIsOpen, GotOfCall, Busy, At
<1>7. AtChange'
  BY <1>1, <1>5 DEF Follows, AtChange, Settled
<1>. QED BY <1>3, <1>4, <1>6, <1>7 DEF Follows

\* The file is the workspace again.
LEMMA FollowsSave ==
  ASSUME IInv, Follows, Save
  PROVE  Follows'
<1>0. TypeOK
  BY DEF IInv
<1>1. /\ UNCHANGED <<ops, log, asked, batch, current>> /\ Up /\ Up' /\ ~Idle /\ Busy
      /\ At("truncated") /\ call' = [call EXCEPT !.at = "saved"]
      /\ disk'.objects = disk.objects /\ disk'.head = disk.head
      /\ disk'.workspace = [disk.workspace EXCEPT ![call.caller] = current[call.caller]]
      /\ call.caller \in Caller
      /\ asked[call.caller].open /\ asked[call.caller].verb = "snapshot"
  BY <1>0 DEF Save, At, Up, Idle, Busy, TypeOK, IInv, CallOpen
<1>2. /\ call'.at = "saved" /\ call'.caller = call.caller /\ call'.try = call.try
      /\ call'.got = call.got
      /\ Known' = Known /\ Logged' = Logged
  BY <1>0, <1>1 DEF TypeOK, Known, Logged
<1>3. OpsOfCalls' /\ ViewIsLatest'
  BY <1>1, OpsKept
<1>4. ViewsMade' /\ PendingOfTry' /\ SnapshotsHeld'
  BY <1>1, <1>2 DEF Follows, ViewsMade, PendingOfTry, SnapshotsHeld
<1>5. /\ disk'.workspace[call.caller] = current[call.caller]
      /\ \A c \in Caller \ {call.caller} : disk'.workspace[c] = disk.workspace[c]
  BY <1>0, <1>1 DEF TypeOK
<1>6. AheadIsOpen' /\ GotOfCall'
  BY <1>1, <1>2, <1>5 DEF Follows, AheadIsOpen, GotOfCall, At
<1>7. AtChange'
  BY <1>1, <1>5 DEF Follows, AtChange, Settled
<1>. QED BY <1>3, <1>4, <1>6, <1>7 DEF Follows

\* A snapshot is answered when memory, the file and the stored view agree on it.
LEMMA FollowsAnswer ==
  ASSUME IInv, Follows, Answer
  PROVE  Follows'
<1>. DEFINE c == call.caller
<1>0. TypeOK /\ Lineage /\ OncePerKey(Known) /\ Busy /\ Up
  BY DEF IInv, MemoryAhead, Busy, Up, Answer, At
<1>1. /\ c \in Caller /\ asked[c].open /\ call.got \in Logged /\ call.got \in Known
      /\ ops[call.try].verb = asked[c].verb
      /\ call.got # 0 /\ ops[call.got].caller = c /\ ops[call.got].key = asked[c].n
      /\ call.at \in {"committed", "saved"}
      /\ call.at = "committed" => asked[c].verb = "attest"
      /\ call.at = "saved" => current[c] = call.got /\ disk.workspace[c] = call.got
  BY <1>0 DEF IInv, CallOpen, Follows, GotOfCall, Answer, At
<1>2. /\ UNCHANGED <<ops, disk, batch, log, current>> /\ Up' /\ ~Busy' /\ Idle'
      /\ call'.at = "idle"
  BY DEF Answer, NoCall, Up, Busy, Idle
<1>3. /\ \A d \in Caller : asked'[d].n = asked[d].n /\ asked'[d].verb = asked[d].verb
      /\ \A d \in Caller \ {c} : asked'[d] = asked[d]
  BY <1>0, <1>1 DEF Answer, Answered, TypeOK
<1>4. OpsOfCalls' /\ ViewIsLatest'
  BY <1>2, <1>3, OpsKept
<1>5. ViewsMade' /\ PendingOfTry' /\ GotOfCall'
  BY <1>2 DEF Follows, ViewsMade, PendingOfTry, GotOfCall
<1>6. SnapshotsHeld'
  BY <1>0, <1>1, <1>2 DEF Follows, SnapshotsHeld, Known, Idle
<1>7. AheadIsOpen'
  <2>. SUFFICES ASSUME NEW o \in Known \ Logged
                PROVE  asked'[ops[o].caller].open /\ ops[o].key = asked'[ops[o].caller].n
    BY <1>2 DEF AheadIsOpen, Known, Logged
  <2>1. o \in DOMAIN ops \ {0}
    BY <1>0, Types DEF Lineage, Logged
  <2>2. ops[o].caller \in Caller /\ asked[ops[o].caller].open
        /\ ops[o].key = asked[ops[o].caller].n
    BY <1>0, <2>1 DEF Follows, OpsOfCalls, AheadIsOpen
  <2>3. ASSUME ops[o].caller = c PROVE FALSE
    BY <1>0, <1>1, <2>1, <2>2, <2>3 DEF OncePerKey
  <2>. QED BY <1>3, <2>2, <2>3
<1>8. AtChange'
  <2>1. asked[c].verb = "snapshot" => ops[disk.head].view[c] = call.got
    <3>. SUFFICES ASSUME asked[c].verb = "snapshot" PROVE ops[disk.head].view[c] = call.got
      OBVIOUS
    <3>. DEFINE w == ops[disk.head].view[c]
    <3>1. SnapshotOf(c, call.got)
      BY <1>0, <1>1, Types DEF Follows, OpsOfCalls, SnapshotOf
    <3>2. w # 0 /\ w \in Logged /\ SnapshotOf(c, w) /\ ops[call.got].key <= ops[w].key
      BY <1>0, <1>1, <3>1, Types DEF Follows, ViewIsLatest, Logged
    <3>3. ops[w].key <= asked[c].n
      BY <1>0, <3>2, Types DEF Follows, OpsOfCalls, SnapshotOf
    <3>4. w \in Known /\ ops[w].key \in Nat /\ asked[c].n \in Nat
      BY <1>0, <1>1, <3>2, Types, StoredInMemory
    <3>5. ops[w].key = ops[call.got].key
      <4>. DEFINE m == asked[c].n
                  n == ops[w].key
      <4>1. m \in Nat /\ n \in Nat /\ m <= n /\ n <= m /\ ops[call.got].key = m
        BY <1>1, <3>2, <3>3, <3>4
      <4>. HIDE DEF m, n
      <4>2. n = m
        BY <4>1
      <4>. QED BY <4>1, <4>2 DEF n
    <3>. QED BY <1>0, <1>1, <3>2, <3>4, <3>5 DEF OncePerKey, SnapshotOf
  <2>2. /\ disk.workspace[c] \in {Torn, ops[disk.head].view[c]}
        /\ disk.workspace[c] = current[c]
    <3>1. CASE asked[c].verb = "snapshot"
      BY <1>1, <2>1, <3>1
    <3>2. CASE asked[c].verb # "snapshot"
      BY <1>0, <1>1, <3>2 DEF Follows, AtChange, Settled
    <3>. QED BY <3>1, <3>2
  <2>. QED BY <1>0, <1>2, <1>3, <2>2 DEF Follows, AtChange, Settled
<1>. QED BY <1>4, <1>5, <1>6, <1>7, <1>8 DEF Follows


\* A failed write may lose the op of a snapshot, and then the view it made too.
LEMMA FollowsFail ==
  ASSUME IInv, Follows, Fail
  PROVE  Follows'
<1>0. TypeOK /\ Busy /\ Up /\ ~Idle
  BY DEF IInv, Fail, Busy, Up, Idle
<1>1. /\ UNCHANGED <<ops, disk, log, asked>> /\ Up' /\ Idle' /\ ~Busy' /\ batch' = {}
      /\ call'.at = "idle" /\ Known' = Known /\ Logged' = Logged
  BY DEF Fail, NoCall, Up, Idle, Busy, Known, Logged
<1>2. OpsOfCalls' /\ ViewIsLatest'
  BY <1>1, OpsKept
<1>3. ViewsMade' /\ PendingOfTry' /\ GotOfCall' /\ AheadIsOpen'
  BY <1>0, <1>1 DEF Follows, ViewsMade, PendingOfTry, GotOfCall, AheadIsOpen
<1>4. SnapshotsHeld'
  <2>. SUFFICES ASSUME NEW o \in Known, ops[o].verb = "snapshot", OpObject(o) \notin disk.objects
                PROVE  o = log.head /\ ViewObject(ops[o].view) \notin disk.objects
    BY <1>1 DEF SnapshotsHeld
  <2>1. OpObject(o) \in batch /\ o \in DOMAIN ops
    BY <1>0, Types DEF Follows, SnapshotsHeld
  <2>2. call.at = "accepted"
    BY <2>1 DEF IInv, BatchShort
  <2>. QED BY <2>1, <2>2 DEF Follows, PendingOfTry
<1>5. AtChange'
  <2>1. \A c \in Caller : Settled(c) => current'[c] = current[c]
    <3>1. CASE current' = current
      BY <3>1
    <3>2. CASE At("committed") /\ current' = [current EXCEPT ![call.caller] = Revision]
      <4>1. ops[call.try].verb = "snapshot"
        BY <3>2 DEF Fail
      <4>2. ~Settled(call.caller)
        BY <3>2, <4>1, RevisionIsGot DEF Settled
      <4>. QED BY <1>0, <3>2, <4>2 DEF TypeOK
    <3>. QED BY <3>1, <3>2 DEF Fail
  <2>. QED BY <1>0, <1>1, <2>1 DEF Follows, AtChange, Settled
<1>. QED BY <1>2, <1>3, <1>4, <1>5 DEF Follows

\* A crash loses what is in memory, and opening finds every op the head reaches.
LEMMA FollowsRestart ==
  ASSUME IInv, Follows, Crash \/ Open
  PROVE  Follows'
<1>0. TypeOK /\ UNCHANGED <<ops, disk, asked>> /\ ~Busy' /\ Logged' = Logged
  BY DEF IInv, Crash, Open, NoCall, Busy, Logged
<1>1. OpsOfCalls' /\ ViewIsLatest'
  BY <1>0, OpsKept
<1>2. batch' \subseteq batch /\ call'.at \in {"down", "idle"}
  BY DEF Crash, Open, NoCall
<1>3. ViewsMade' /\ PendingOfTry' /\ GotOfCall'
  BY <1>0, <1>2 DEF Follows, ViewsMade, PendingOfTry, GotOfCall
<1>4. CASE Crash
  <2>1. ~Up'
    BY <1>4 DEF Crash, NoCall, Up
  <2>. QED BY <1>0, <1>1, <1>3, <2>1 DEF Follows, SnapshotsHeld, AheadIsOpen, AtChange, Settled
<1>5. CASE Open
  <2>1. Known' = Logged /\ current' = disk.workspace
    BY <1>5 DEF Open, Rebuilt, Known, Logged
  <2>2. SnapshotsHeld' /\ AheadIsOpen'
    BY <1>0, <1>5, <2>1 DEF Open, Opens, SnapshotsHeld, AheadIsOpen, Logged
  <2>3. AtChange'
    BY <1>0, <2>1 DEF Follows, AtChange, Settled
  <2>. QED BY <1>1, <1>3, <2>2, <2>3 DEF Follows
<1>. QED BY <1>4, <1>5

\* A caller whose calls are answered finds its workspace at the revision of its
\* change, whatever crashed or failed in between.
THEOREM WorkspacesFollow == Spec => []WorkspaceFollows
<1>1. IInv /\ IInv' /\ Follows /\ [Next]_vars => Follows'
  <2>. SUFFICES ASSUME IInv, IInv', Follows, [Next]_vars PROVE Follows'
    OBVIOUS
  <2>1. CASE Next
    BY <2>1, FollowsAsk, FollowsBegin, FollowsEndBatch, FollowsSetHeads, FollowsTables,
       FollowsTruncate, FollowsSave, FollowsAnswer, FollowsFail, FollowsRestart DEF Next
  <2>2. CASE UNCHANGED vars
    <3>. USE <2>2 DEF vars, Follows
    <3>1. OpsOfCalls' /\ ViewIsLatest'
      BY OpsKept
    <3>2. ViewsMade' /\ PendingOfTry' /\ SnapshotsHeld'
      BY DEF ViewsMade, PendingOfTry, SnapshotsHeld, Known, Up, Idle
    <3>3. AheadIsOpen' /\ GotOfCall' /\ AtChange'
      BY DEF AheadIsOpen, GotOfCall, AtChange, Settled, Known, Logged, Up, Busy
    <3>. QED BY <3>1, <3>2, <3>3
  <2>. QED BY <2>1, <2>2
<1>2. IInv /\ Follows => WorkspaceFollows
  <2>. SUFFICES ASSUME IInv, Follows, Up, NEW c \in Caller, ~asked[c].open, current[c] # Torn
                PROVE  current[c] = ops[log.head].view[c] /\ disk.workspace[c] = current[c]
    BY DEF WorkspaceFollows
  <2>1. Settled(c)
    BY DEF Settled
  <2>. QED BY <2>1, HeadsAgree DEF Follows, AtChange
<1>. QED BY Inductive, FollowsInit, <1>1, <1>2, PTL DEF Spec
=============================================================================
