--------------------------- MODULE LogLinesProofs ---------------------------
(***************************************************************************)
(* Proofs about LogLines for every set of callers and number of passes:    *)
(* type correctness, what a refused and what a returned ping leave on      *)
(* stdout, and how many pings a failed write can cost.                     *)
(***************************************************************************)
EXTENDS LogLines, FiniteSetTheorems, TLAPS

-----------------------------------------------------------------------------
(* Writes.                                                                 *)

OutTyped == lines \subseteq Seq(Texts) /\ open \in Seq(Texts) /\ failures \in Nat

Wrote(id) == Text(id) \/ PrintLine(id) \/ WriteFails(id)

LEMMA TextsAre ==
  \A t : t \in texts <=> \E l \in lines \cup {open} : \E i \in DOMAIN l : t = l[i]
BY DEF texts

LEMMA TextsTyped == OutTyped => texts \subseteq Texts
<1> SUFFICES ASSUME OutTyped, NEW l \in Seq(Texts), NEW i \in DOMAIN l
             PROVE  l[i] \in Texts
  BY TextsAre DEF OutTyped
<1> QED
  OBVIOUS

LEMMA AppendHolds ==
  ASSUME NEW s \in Seq(Texts), NEW e \in Texts, NEW i \in DOMAIN Append(s, e)
  PROVE  Append(s, e)[i] = e \/ \E j \in DOMAIN s : Append(s, e)[i] = s[j]
<1>1. DOMAIN s = 1 .. Len(s) /\ i \in 1 .. Len(s) + 1 /\ Len(s) \in Nat
  OBVIOUS
<1>2. CASE i = Len(s) + 1
  BY <1>2
<1>3. CASE i \in 1 .. Len(s)
  BY <1>1, <1>3
<1> QED
  BY <1>1, <1>2, <1>3

(* A write keeps the types and every line, and adds the text it was given. *)
LEMMA Writing ==
  ASSUME OutTyped, NEW id \in Ids, Wrote(id)
  PROVE  /\ OutTyped' /\ lines \subseteq lines'
         /\ texts' \subseteq texts \cup {Whole(id), Part(id)}
<1>1. Whole(id) \in Texts /\ Part(id) \in Texts
  BY DEF Whole, Part, Texts
<1>2. PICK e \in {Whole(id), Part(id)} :
        \A l \in lines' \cup {open'} : l \in lines \cup {open, Append(open, e), <<>>}
  BY DEF Wrote, Text, PrintLine, WriteFails
<1>3. OutTyped' /\ lines \subseteq lines'
  <2>1. Append(open, Whole(id)) \in Seq(Texts) /\ Append(open, Part(id)) \in Seq(Texts)
    BY <1>1 DEF OutTyped
  <2>2. <<>> \in Seq(Texts)
    OBVIOUS
  <2>3. CASE Text(id)
    BY <2>1, <2>3 DEF Text, OutTyped
  <2>4. CASE PrintLine(id)
    BY <2>1, <2>2, <2>4 DEF PrintLine, OutTyped
  <2>5. CASE WriteFails(id)
    BY <2>1, <2>5 DEF WriteFails, OutTyped
  <2> QED
    BY <2>3, <2>4, <2>5 DEF Wrote
<1>4. ASSUME NEW l \in lines' \cup {open'}, NEW i \in DOMAIN l
      PROVE  l[i] \in texts \cup {Whole(id), Part(id)}
  <2>1. CASE l \in lines \cup {open}
    BY <1>4, <2>1, TextsAre
  <2>2. CASE l = Append(open, e)
    BY <1>1, <1>4, <2>2, AppendHolds, TextsAre DEF OutTyped
  <2>3. CASE l = <<>>
    BY <1>4, <2>3
  <2> QED
    BY <1>2, <1>4, <2>1, <2>2, <2>3
<1>5. \A t : t \in texts' <=> \E l \in lines' \cup {open'} : \E i \in DOMAIN l : t = l[i]
  BY DEF texts
<1> QED
  BY <1>3, <1>4, <1>5

LEMMA EndingLine ==
  ASSUME OutTyped, Newline
  PROVE  OutTyped' /\ lines \subseteq lines' /\ texts' \subseteq texts
<1>1. OutTyped' /\ lines \subseteq lines'
  BY DEF Newline, OutTyped
<1>2. lines' \cup {open'} = lines \cup {open, <<>>}
  BY DEF Newline
<1>3. \A t : t \in texts' <=> \E l \in lines' \cup {open'} : \E i \in DOMAIN l : t = l[i]
  BY DEF texts
<1> QED
  BY <1>1, <1>2, <1>3, TextsAre

-----------------------------------------------------------------------------
(* The invariant.                                                          *)

PointsOf == IF language = "go" THEN {"idle", "record", "envelope", "write", "other"}
            ELSE IF language = "rust" THEN {"idle", "record", "write", "end"}
            ELSE {"idle", "other", "otherEnd", "record", "write", "end"}

(* A caller is where its language lets it be, in a pass it has begun. *)
Where ==
  \A c \in Callers : pc[c] \in PointsOf /\ (pc[c] # "idle" => passes[c] # 0)

(* A caller is told the result of a ping at the end of its pass. *)
Told ==
  \A id \in returned \cup refused :
    /\ id[3] = "ping" /\ id[2] <= passes[id[1]]
    /\ id[2] = passes[id[1]] =>
         pc[id[1]] = "idle" \/ (language = "go" /\ pc[id[1]] = "other")

(* In Go a ping is written in the last step of its record, if at all. *)
Written ==
  language = "go" =>
    \A t \in texts : t.id[3] = "ping" =>
      /\ t.id[2] <= passes[t.id[1]]
      /\ t.id[2] = passes[t.id[1]] => pc[t.id[1]] \in {"idle", "other"}

RefusedInGo == language # "go" => refused = {}

Calls == /\ TypeOK /\ Where /\ Told /\ Written
         /\ RefusedInGo /\ RefusedLeavesNothing

LEMMA PingIds ==
  ASSUME TypeOK, Where, NEW c \in Callers, pc[c] # "idle"
  PROVE  ping(c) \in Ids /\ other(c) \in Ids
<1>1. passes[c] \in 1 .. MaxPasses
  BY LogAssumption DEF TypeOK, Where
<1> QED
  BY <1>1 DEF ping, other, Ids

LEMMA IdParts ==
  ASSUME NEW id \in Ids
  PROVE  /\ id[1] \in Callers /\ id[2] \in 1 .. MaxPasses /\ id[2] \in Nat
         /\ id = <<id[1], id[2], id[3]>>
BY LogAssumption DEF Ids

LEMMA CallsInit == Init => Calls
<1> SUFFICES ASSUME Init PROVE Calls
  OBVIOUS
<1>1. lines = {} /\ open = <<>> /\ returned = {} /\ refused = {}
  BY DEF Init
<1>2. texts = {}
  BY <1>1, TextsAre
<1>3. dead \in BOOLEAN
  BY Zenon DEF Init
<1> QED
  BY <1>1, <1>2, <1>3, LogAssumption
  DEF Init, Calls, TypeOK, Where, Told, Written, RefusedInGo,
      RefusedLeavesNothing, PCs, PointsOf

-----------------------------------------------------------------------------
(* Steps.  A pass begins, or a caller inside its pass moves on, with or    *)
(* without a write and with or without a result.                           *)

LEMMA PassBegins ==
  ASSUME Calls, NEW c \in Callers, pc[c] = "idle", NEW l \in PointsOf \ {"idle"},
         NextPass(c, l), UNCHANGED language
  PROVE  Calls'
<1> USE DEF Calls, TypeOK
<1>1. /\ pc' = [pc EXCEPT ![c] = l] /\ passes' = [passes EXCEPT ![c] = @ + 1]
      /\ UNCHANGED <<language, lines, open, failures, returned, refused, dead>>
  BY DEF NextPass, Goto, outVars
<1>2. passes[c] \in Nat /\ passes[c] < MaxPasses /\ l \in PCs
  BY DEF NextPass, PointsOf, PCs
<1>3. TypeOK'
  BY <1>1, <1>2, LogAssumption
<1>4. Where'
  BY <1>1, <1>2 DEF Where, PointsOf
<1>5. ASSUME NEW id \in Ids, id[2] <= passes[id[1]]
      PROVE  id[2] <= passes'[id[1]]
             /\ (id[2] = passes'[id[1]] => id[2] = passes[id[1]] /\ pc'[id[1]] = pc[id[1]])
  <2>1. passes[id[1]] \in Nat /\ id[1] \in Callers /\ id[2] \in Nat
    BY IdParts, LogAssumption
  <2> QED
    BY <1>1, <1>5, <2>1
<1>6. Told'
  BY <1>1, <1>5 DEF Told
<1>7. texts' = texts /\ \A t \in texts : t.id \in Ids
  BY <1>1, TextsTyped DEF texts, OutTyped, Texts
<1>8. Written'
  BY <1>1, <1>5, <1>7 DEF Written
<1> QED
  BY <1>1, <1>3, <1>4, <1>6, <1>7, <1>8 DEF RefusedInGo, RefusedLeavesNothing

LEMMA MovesOn ==
  ASSUME Calls, NEW c \in Callers, pc[c] # "idle", NEW l \in PointsOf,
         pc' = [pc EXCEPT ![c] = l], UNCHANGED <<language, passes>>,
         OutTyped', dead' \in BOOLEAN,
         returned' \in {returned, returned \cup {ping(c)}},
         refused' \in {refused, refused \cup {ping(c)}},
         returned' = returned \/ refused' = refused,
         ping(c) \in returned' \cup refused' =>
           l = "idle" \/ (language = "go" /\ l = "other"),
         returned' # returned => pc[c] \in {"write", "end"},
         refused' # refused =>
           language = "go" /\ pc[c] \in {"record", "envelope"} /\ texts' \subseteq texts,
         \A t \in texts' : \/ t \in texts \/ t.id = other(c)
                           \/ t.id = ping(c) /\ pc[c] = "write"
                              /\ (language = "go" => l = "other"),
         language = "go" => l \in {"idle", "other"} \/ pc[c] \in {"record", "envelope"}
  PROVE  Calls'
<1> USE DEF Calls, TypeOK
<1>1. ping(c) \in Ids /\ other(c) \in Ids /\ l \in PCs
  BY PingIds DEF PointsOf, PCs
<1>2. /\ ping(c)[1] = c /\ ping(c)[2] = passes[c] /\ ping(c)[3] = "ping"
      /\ other(c)[3] = "other" /\ passes[c] \in Nat
  BY LogAssumption DEF ping, other
<1>3. ping(c) \in returned \cup refused => language = "go" /\ pc[c] = "other"
  BY <1>2 DEF Told
<1>4. TypeOK'
  <2>1. returned' \subseteq Ids /\ refused' \subseteq Ids \ returned'
    BY <1>1, <1>3
  <2>2. pc' \in [Callers -> PCs]
    BY <1>1
  <2> QED
    BY <2>1, <2>2 DEF OutTyped
<1>5. Where'
  BY DEF Where, PointsOf
<1>6. ASSUME NEW id \in Ids, id # ping(c), id[3] = "ping", id[2] = passes[id[1]]
      PROVE  id[1] # c
  BY <1>6, IdParts DEF ping
<1>7. Told'
  <2> SUFFICES ASSUME NEW id \in returned' \cup refused'
               PROVE  /\ id[3] = "ping" /\ id[2] <= passes'[id[1]]
                      /\ id[2] = passes'[id[1]] =>
                           pc'[id[1]] = "idle" \/ (language' = "go" /\ pc'[id[1]] = "other")
    BY DEF Told
  <2>1. CASE id = ping(c)
    BY <1>2, <2>1
  <2>2. CASE id # ping(c)
    BY <1>6, <2>2 DEF Told
  <2> QED
    BY <2>1, <2>2
<1>8. \A t \in texts : t.id \in Ids
  BY TextsTyped DEF OutTyped, Texts
<1>9. Written'
  <2> SUFFICES ASSUME language = "go", NEW t \in texts', t.id[3] = "ping"
               PROVE  /\ t.id[2] <= passes[t.id[1]]
                      /\ t.id[2] = passes[t.id[1]] => pc'[t.id[1]] \in {"idle", "other"}
    BY DEF Written
  <2>1. CASE t.id = ping(c)
    <3>1. CASE t \in texts
      BY <1>2, <2>1, <3>1 DEF Written
    <3>2. CASE t \notin texts
      BY <1>2, <2>1, <3>2
    <3> QED
      BY <3>1, <3>2
  <2>2. CASE t.id # ping(c)
    BY <1>2, <1>6, <1>8, <2>2 DEF Written
  <2> QED
    BY <2>1, <2>2
<1>10. RefusedInGo'
  BY DEF RefusedInGo
<1>11. RefusedLeavesNothing'
  <2> SUFFICES ASSUME NEW t \in texts' PROVE t.id \notin refused'
    BY DEF RefusedLeavesNothing
  <2>1. CASE refused' # refused
    <3>1. t \in texts /\ t.id \notin refused
      BY <2>1 DEF RefusedLeavesNothing
    <3>2. t.id # ping(c)
      BY <1>2, <2>1, <3>1 DEF Written
    <3> QED
      BY <2>1, <3>1, <3>2
  <2>2. CASE refused' = refused
    <3>1. CASE t.id = other(c)
      BY <1>2, <2>2, <3>1 DEF Told
    <3>2. CASE t.id = ping(c) /\ pc[c] = "write"
      BY <1>3, <2>2, <3>2
    <3>3. CASE t \in texts
      BY <2>2, <3>3 DEF RefusedLeavesNothing
    <3> QED
      BY <3>1, <3>2, <3>3
  <2> QED
    BY <2>1, <2>2
<1> QED
  BY <1>4, <1>5, <1>7, <1>9, <1>10, <1>11

LEMMA Unwritten == OutTyped /\ UNCHANGED outVars => OutTyped' /\ texts' = texts
BY DEF OutTyped, outVars, texts

LEMMA WroteIs ==
  ASSUME OutTyped, NEW id \in Ids, Wrote(id), NEW t \in texts'
  PROVE  t \in texts \/ t.id = id
BY Writing DEF Whole, Part

(* Control moves on, without a result. *)
LEMMA Continues ==
  ASSUME Calls, NEW c \in Callers, pc[c] # "idle", NEW l \in PointsOf,
         Continue(c, l), UNCHANGED language, OutTyped',
         \A t \in texts' : \/ t \in texts \/ t.id = other(c)
                           \/ t.id = ping(c) /\ pc[c] = "write" /\ language # "go",
         language = "go" => IF pc[c] = "other" THEN l = "idle"
                                               ELSE pc[c] \in {"record", "envelope"}
  PROVE  Calls'
<1>1. /\ pc' = [pc EXCEPT ![c] = l]
      /\ UNCHANGED <<language, passes, returned, refused, dead>>
  BY DEF Continue, Goto
<1>2. ping(c) \in returned \cup refused => language = "go" /\ pc[c] = "other"
  BY DEF Calls, Told, ping
<1>3. dead' \in BOOLEAN
  BY <1>1, Zenon DEF Calls, TypeOK
<1> QED
  BY <1>1, <1>2, <1>3, MovesOn

LEMMA Succeeds ==
  ASSUME Calls, NEW c \in Callers, pc[c] \in {"write", "end"}, NEW l \in PointsOf,
         Succeed(c, l), UNCHANGED language, OutTyped',
         l = IF language = "go" THEN "other" ELSE "idle",
         \A t \in texts' : t \in texts \/ (t.id = ping(c) /\ pc[c] = "write")
  PROVE  Calls'
<1>1. /\ pc' = [pc EXCEPT ![c] = l] /\ returned' = returned \cup {ping(c)}
      /\ UNCHANGED <<language, passes, refused, dead>>
  BY DEF Succeed, Goto
<1>2. dead' \in BOOLEAN
  BY <1>1, Zenon DEF Calls, TypeOK
<1> QED
  BY <1>1, <1>2, MovesOn

LEMMA Dies ==
  ASSUME Calls, Die, UNCHANGED language, OutTyped', language # "go" \/ texts' = texts
  PROVE  Calls'
<1>1. UNCHANGED <<pc, passes, returned, refused, language>> /\ dead' \in BOOLEAN
  BY DEF Die
<1>2. Written'
  BY <1>1 DEF Calls, Written
<1>3. RefusedLeavesNothing'
  BY <1>1 DEF Calls, RefusedInGo, RefusedLeavesNothing
<1> QED
  BY <1>1, <1>2, <1>3 DEF Calls, TypeOK, OutTyped, Where, Told, RefusedInGo, PointsOf

LEMMA GoCalls ==
  ASSUME Calls, NEW c \in Callers, GoStep(c)
  PROVE  Calls'
<1>0. language = "go" /\ UNCHANGED language
  BY DEF GoStep, GoEvent, GoPing, GoEnvelope, GoWrite, GoMain, At
<1>1. OutTyped /\ (pc[c] # "idle" => ping(c) \in Ids /\ other(c) \in Ids)
  BY PingIds DEF Calls, TypeOK, OutTyped
<1> USE DEF At, PointsOf
<1>2. CASE GoEvent(c)
  BY <1>0, <1>2, PassBegins DEF GoEvent
<1>3. ASSUME Refuse(c), pc[c] \in {"record", "envelope"} PROVE Calls'
  <2>1. /\ pc' = [pc EXCEPT ![c] = "other"] /\ refused' = refused \cup {ping(c)}
        /\ UNCHANGED <<passes, returned, dead, outVars>>
    BY <1>3 DEF Refuse, Goto
  <2>2. OutTyped' /\ texts' = texts
    BY <1>1, <2>1, Unwritten
  <2>3. dead' \in BOOLEAN
    BY <2>1, Zenon DEF Calls, TypeOK
  <2> QED
    BY <1>0, <1>3, <2>1, <2>2, <2>3, MovesOn
<1>4. CASE GoPing(c) \/ GoEnvelope(c)
  <2>1. ASSUME NEW l \in {"envelope", "write"}, Continue(c, l), UNCHANGED outVars,
               pc[c] \in {"record", "envelope"}
        PROVE  Calls'
    BY <1>0, <1>1, <2>1, Unwritten, Continues
  <2> QED
    BY <1>3, <1>4, <2>1 DEF GoPing, GoEnvelope
<1>5. CASE GoWrite(c)
  <2>1. pc[c] = "write" /\ Wrote(ping(c)) /\ Succeed(c, "other")
    BY <1>5 DEF GoWrite, Wrote
  <2>2. OutTyped'
    BY <1>1, <2>1, Writing
  <2>3. \A t \in texts' : t \in texts \/ t.id = ping(c)
    BY <1>1, <2>1, WroteIs
  <2> QED
    BY <1>0, <2>1, <2>2, <2>3, Succeeds
<1>6. CASE GoMain(c)
  <2>1. pc[c] = "other" /\ Wrote(other(c)) /\ Continue(c, "idle")
    BY <1>6 DEF GoMain, Wrote
  <2>2. OutTyped'
    BY <1>1, <2>1, Writing
  <2>3. \A t \in texts' : t \in texts \/ t.id = other(c)
    BY <1>1, <2>1, WroteIs
  <2> QED
    BY <1>0, <2>1, <2>2, <2>3, Continues
<1> QED
  BY <1>2, <1>4, <1>5, <1>6 DEF GoStep

LEMMA RustCalls ==
  ASSUME Calls, NEW c \in Callers, RustStep(c)
  PROVE  Calls'
<1>0. language = "rust" /\ UNCHANGED language
  BY DEF RustStep, RustEvent, RustPing, RustPrint, At
<1>1. OutTyped /\ (pc[c] # "idle" => ping(c) \in Ids)
  BY PingIds DEF Calls, TypeOK, OutTyped
<1> USE DEF At, PointsOf
<1>2. CASE RustEvent(c)
  BY <1>0, <1>2, PassBegins DEF RustEvent
<1>3. CASE RustPing(c)
  <2>1. OutTyped' /\ texts' = texts /\ pc[c] = "record"
    BY <1>1, <1>3, Unwritten DEF RustPing
  <2>2. CASE Continue(c, "write")
    BY <1>0, <2>1, <2>2, Continues
  <2>3. CASE Die
    BY <1>0, <2>1, <2>3, Dies
  <2> QED
    BY <1>3, <2>2, <2>3 DEF RustPing
<1>4. CASE RustPrint(c)
  <2>1. CASE pc[c] = "write"
    <3>1. Wrote(ping(c)) /\ (Succeed(c, "idle") \/ Continue(c, "end") \/ Die)
      BY <1>4, <2>1 DEF RustPrint, Wrote
    <3>2. OutTyped'
      BY <1>1, <2>1, <3>1, Writing
    <3>3. \A t \in texts' : t \in texts \/ t.id = ping(c)
      BY <1>1, <2>1, <3>1, WroteIs
    <3>4. CASE Succeed(c, "idle")
      BY <1>0, <2>1, <3>2, <3>3, <3>4, Succeeds
    <3>5. CASE Continue(c, "end")
      BY <1>0, <2>1, <3>2, <3>3, <3>5, Continues
    <3>6. CASE Die
      BY <1>0, <3>2, <3>6, Dies
    <3> QED
      BY <3>1, <3>4, <3>5, <3>6
  <2>2. CASE pc[c] = "end"
    <3>1. UNCHANGED outVars => OutTyped' /\ texts' = texts
      BY <1>1, Unwritten
    <3>2. Newline => OutTyped' /\ texts' \subseteq texts
      BY <1>1, EndingLine
    <3> QED
      BY <1>0, <1>4, <2>2, <3>1, <3>2, Succeeds, Dies DEF RustPrint
  <2> QED
    BY <1>4, <2>1, <2>2 DEF RustPrint
<1> QED
  BY <1>2, <1>3, <1>4 DEF RustStep

LEMMA PyCalls ==
  ASSUME Calls, NEW c \in Callers, PyStep(c)
  PROVE  Calls'
<1>0. language = "python" /\ UNCHANGED language
  BY DEF PyStep, PyEvent, PyMain, PyRecord, PyEmit, At
<1>1. OutTyped /\ (pc[c] # "idle" => ping(c) \in Ids /\ other(c) \in Ids)
  BY PingIds DEF Calls, TypeOK, OutTyped
<1>2. UNCHANGED outVars => OutTyped' /\ texts' = texts
  BY <1>1, Unwritten
<1>3. Newline => OutTyped' /\ texts' \subseteq texts
  BY <1>1, EndingLine
<1> USE DEF At, PointsOf
<1>4. ASSUME Die, OutTyped' PROVE Calls'
  BY <1>0, <1>4, Dies
<1>5. CASE PyEvent(c)
  BY <1>0, <1>5, PassBegins DEF PyEvent
<1>6. ASSUME NEW id \in {ping(c), other(c)}, Wrote(id), pc[c] # "idle",
             id = ping(c) => pc[c] = "write",
             Die \/ \E l \in {"otherEnd", "end"} : Continue(c, l)
      PROVE  Calls'
  <2>1. OutTyped'
    BY <1>1, <1>6, Writing
  <2>2. \A t \in texts' : t \in texts \/ t.id = id
    BY <1>1, <1>6, WroteIs
  <2> QED
    BY <1>0, <1>4, <1>6, <2>1, <2>2, Continues
<1>7. CASE PyMain(c)
  <2>1. CASE pc[c] = "other"
    <3>1. other(c) # ping(c)
      BY DEF other, ping
    <3> QED
      BY <1>6, <1>7, <2>1, <3>1 DEF PyMain, Wrote
  <2>2. CASE pc[c] = "otherEnd"
    BY <1>0, <1>2, <1>3, <1>4, <1>7, <2>2, Continues DEF PyMain
  <2> QED
    BY <1>7, <2>1, <2>2 DEF PyMain
<1>8. CASE PyRecord(c)
  BY <1>0, <1>2, <1>4, <1>8, Continues DEF PyRecord
<1>9. CASE PyEmit(c)
  <2>1. CASE pc[c] = "write"
    BY <1>6, <1>9, <2>1 DEF PyEmit, Wrote
  <2>2. CASE pc[c] = "end"
    BY <1>0, <1>2, <1>3, <1>4, <1>9, <2>2, Succeeds DEF PyEmit
  <2> QED
    BY <1>9, <2>1, <2>2 DEF PyEmit
<1> QED
  BY <1>5, <1>7, <1>8, <1>9 DEF PyStep

LEMMA CallsStep == Calls /\ [Next]_vars => Calls'
<1> SUFFICES ASSUME Calls, [Next]_vars PROVE Calls'
  OBVIOUS
<1>1. CASE Killed
  BY <1>1, Unwritten, Dies DEF Killed, Calls, TypeOK, OutTyped
<1>2. CASE UNCHANGED vars
  <2>1. OutTyped' /\ texts' = texts
    BY <1>2, Unwritten DEF vars, Calls, TypeOK, OutTyped
  <2> QED
    BY <1>2, <2>1 DEF vars, callVars, outVars, Calls, TypeOK, Where, PointsOf,
                      Told, Written, RefusedInGo, RefusedLeavesNothing
<1>3. Main \in Callers
  BY LogAssumption
<1> QED
  BY <1>1, <1>2, <1>3, GoCalls, RustCalls, PyCalls DEF Next, Terminated

(* What is known of the calls is an invariant. *)
THEOREM Safety == Spec => []Calls
BY CallsInit, CallsStep, PTL DEF Spec

(* Every variable of the loggers keeps its type, and no ping is told two
   results. *)
THEOREM LogTypes == Spec => []TypeOK
BY Safety, PTL DEF Calls

(* An error of record means that nothing of the ping has been written. *)
THEOREM RefusalsLeaveNothing == Spec => []RefusedLeavesNothing
BY Safety, PTL DEF Calls

-----------------------------------------------------------------------------
(* What a failed write costs.                                              *)

Lost   == returned \ readable
Spoilt == IF open = <<>> THEN 0 ELSE 1

(* A failure costs its own ping and soils one line, whose next ping is lost
   in turn. *)
Loss == /\ IsFiniteSet(returned)
        /\ language = "go" => Cardinality(Lost) + Spoilt <= 2 * failures

LEMMA Within ==
  ASSUME NEW S, NEW T, NEW x, IsFiniteSet(S), T \subseteq S \cup {x}
  PROVE  /\ Cardinality(T) \in Nat /\ Cardinality(S) \in Nat
         /\ Cardinality(T) <= Cardinality(S) + 1
         /\ T \subseteq S => Cardinality(T) <= Cardinality(S)
<1>1. /\ IsFiniteSet(S \cup {x})
      /\ Cardinality(S \cup {x}) <= Cardinality(S) + 1
      /\ Cardinality(S) \in Nat
  BY FS_AddElement, FS_CardinalityType
<1>2. IsFiniteSet(T) /\ Cardinality(T) <= Cardinality(S \cup {x})
  BY <1>1, FS_Subset
<1>3. Cardinality(T) \in Nat /\ Cardinality(S \cup {x}) \in Nat
  BY <1>1, <1>2, FS_CardinalityType
<1>4. T \subseteq S => Cardinality(T) <= Cardinality(S)
  BY FS_Subset
<1> QED
  BY <1>1, <1>2, <1>3, <1>4

LEMMA ReadableGrows ==
  ASSUME lines \subseteq lines'
  PROVE  readable \subseteq readable'
BY DEF readable

(* A line printed on a clean stdout is readable. *)
LEMMA CleanLine ==
  ASSUME NEW id \in Ids, PrintLine(id), open = <<>>
  PROVE  id \in readable'
<1>1. Append(<<>>, Whole(id)) = <<Whole(id)>>
  OBVIOUS
<1> QED
  BY <1>1 DEF PrintLine, readable

LEMMA LossUnmoved ==
  ASSUME Calls, Loss, UNCHANGED <<returned, language>>,
         \/ UNCHANGED outVars
         \/ language # "go"
  PROVE  Loss'
<1>1. CASE UNCHANGED outVars
  <2>1. Lost' = Lost /\ Spoilt' = Spoilt /\ failures' = failures
    BY <1>1 DEF Lost, Spoilt, readable, outVars
  <2> QED
    BY <2>1 DEF Loss
<1>2. CASE language # "go"
  BY <1>2 DEF Loss
<1> QED
  BY <1>1, <1>2

LEMMA LossGo ==
  ASSUME Calls, Loss, NEW c \in Callers, GoWrite(c) \/ GoMain(c)
  PROVE  Loss'
<1>0. pc[c] # "idle" /\ language = "go" /\ UNCHANGED language
  BY DEF GoWrite, GoMain, At
<1>1. ping(c) \in Ids /\ other(c) \in Ids /\ OutTyped
  BY <1>0, PingIds DEF Calls, TypeOK, OutTyped
<1>2. PICK id \in {ping(c), other(c)} :
        /\ PrintLine(id) \/ WriteFails(id)
        /\ returned' = IF id = ping(c) THEN returned \cup {id} ELSE returned
  <2>1. ping(c) # other(c)
    BY DEF ping, other
  <2> QED
    BY <2>1 DEF GoWrite, GoMain, Succeed, Continue
<1>3. readable \subseteq readable'
  BY <1>1, <1>2, Writing, ReadableGrows DEF Wrote
<1>4. Lost' \subseteq Lost \cup {id}
  BY <1>2, <1>3 DEF Lost
<1>5. IsFiniteSet(Lost) /\ IsFiniteSet(returned')
  BY <1>2, FS_Subset, FS_AddElement DEF Loss, Lost
<1>6. /\ Cardinality(Lost') \in Nat /\ Cardinality(Lost) \in Nat
      /\ Cardinality(Lost') <= Cardinality(Lost) + 1
      /\ Lost' \subseteq Lost => Cardinality(Lost') <= Cardinality(Lost)
  <2> HIDE DEF Lost
  <2> QED
    BY <1>4, <1>5, Within
<1>7. failures \in Nat /\ Cardinality(Lost) + Spoilt <= 2 * failures
  BY <1>0, <1>1 DEF Loss, OutTyped
<1>8. CASE WriteFails(id)
  <2>1. failures' = failures + 1
    BY <1>8 DEF WriteFails
  <2>2. Spoilt' <= Spoilt + 1 /\ Spoilt \in Nat /\ Spoilt' \in Nat
    BY DEF Spoilt
  <2>3. Cardinality(Lost') + Spoilt' <= 2 * failures'
    BY <1>6, <1>7, <2>1, <2>2
  <2> QED
    BY <1>5, <2>3 DEF Loss
<1>9. CASE PrintLine(id)
  <2>1. failures' = failures /\ Spoilt' = 0
    BY <1>9 DEF PrintLine, Spoilt
  <2>2. CASE open = <<>>
    <3>1. Lost' \subseteq Lost
      BY <1>1, <1>2, <1>3, <1>4, <1>9, <2>2, CleanLine DEF Lost
    <3>2. Spoilt = 0
      BY <2>2 DEF Spoilt
    <3> QED
      BY <1>5, <1>6, <1>7, <2>1, <3>1, <3>2 DEF Loss
  <2>3. CASE open # <<>>
    <3>1. Spoilt = 1
      BY <2>3 DEF Spoilt
    <3> QED
      BY <1>5, <1>6, <1>7, <2>1, <3>1 DEF Loss
  <2> QED
    BY <2>2, <2>3
<1> QED
  BY <1>2, <1>8, <1>9

-----------------------------------------------------------------------------
(* Rust and Python: what stands on the last line tells where main is.      *)

Clean ==
  ~dead /\ language # "go" =>
    open = CASE pc[Main] = "end"      -> <<Whole(ping(Main))>>
             [] pc[Main] = "otherEnd" -> <<Whole(other(Main))>>
             [] OTHER                 -> <<>>

Kept == Calls /\ Loss /\ Clean /\ ReturnedIsReadable

LEMMA KeptInit == Init => Kept
<1> SUFFICES ASSUME Init PROVE Kept
  OBVIOUS
<1>1. /\ returned = {} /\ failures = 0 /\ open = <<>> /\ lines = {}
      /\ pc[Main] = "idle"
  BY LogAssumption DEF Init
<1>2. Lost = {} /\ Spoilt = 0
  BY <1>1 DEF Lost, Spoilt
<1> QED
  BY <1>1, <1>2, CallsInit, FS_EmptySet
  DEF Kept, Loss, Clean, ReturnedIsReadable, readable

LEMMA KeptGo ==
  ASSUME Kept, NEW c \in Callers, GoStep(c)
  PROVE  Kept'
<1>0. language = "go" /\ UNCHANGED language
  BY DEF GoStep, GoEvent, GoPing, GoEnvelope, GoWrite, GoMain, At
<1>1. GoEvent(c) \/ GoPing(c) \/ GoEnvelope(c) => UNCHANGED <<returned, outVars>>
  BY DEF GoEvent, GoPing, GoEnvelope, NextPass, Refuse, Continue
<1>2. Loss'
  BY <1>0, <1>1, LossGo, LossUnmoved DEF GoStep, Kept
<1> QED
  BY <1>0, <1>2, GoCalls DEF Kept, Clean, ReturnedIsReadable

LEMMA KeptMain ==
  ASSUME Kept, ~dead, RustStep(Main) \/ PyStep(Main)
  PROVE  Kept'
<1>0. language # "go" /\ UNCHANGED language /\ Main \in Callers
  BY LogAssumption
  DEF RustStep, RustEvent, RustPing, RustPrint, PyStep, PyEvent, PyMain, PyRecord,
      PyEmit, At
<1>1. Calls'
  BY <1>0, RustCalls, PyCalls DEF Kept
<1>2. open = CASE pc[Main] = "end"      -> <<Whole(ping(Main))>>
               [] pc[Main] = "otherEnd" -> <<Whole(other(Main))>>
               [] OTHER                 -> <<>>
  BY <1>0 DEF Kept, Clean
<1>3. OutTyped /\ (pc[Main] # "idle" => ping(Main) \in Ids /\ other(Main) \in Ids)
  BY <1>0, PingIds DEF Kept, Calls, TypeOK, OutTyped
<1>4. pc \in [Callers -> PCs] /\ returned \subseteq readable
  BY <1>0 DEF Kept, Calls, TypeOK, ReturnedIsReadable
<1>5. lines \subseteq lines'
  <2>1. UNCHANGED outVars => lines \subseteq lines'
    BY DEF outVars
  <2>2. Newline => lines \subseteq lines'
    BY DEF Newline
  <2>3. \A id : Text(id) \/ PrintLine(id) \/ WriteFails(id) => lines \subseteq lines'
    BY DEF Text, PrintLine, WriteFails
  <2> QED
    BY <2>1, <2>2, <2>3
    DEF RustStep, RustEvent, RustPing, RustPrint, PyStep, PyEvent, PyMain, PyRecord,
        PyEmit, NextPass
<1>6. readable \subseteq readable'
  BY <1>5, ReadableGrows
<1>7. ASSUME UNCHANGED returned PROVE Loss' /\ ReturnedIsReadable'
  <2>1. Loss'
    BY <1>0, <1>7, LossUnmoved DEF Kept
  <2> QED
    BY <1>4, <1>6, <1>7, <2>1 DEF ReturnedIsReadable
<1>8. ASSUME Die PROVE Kept'
  BY <1>0, <1>1, <1>7, <1>8 DEF Die, Kept, Clean
<1>9. ASSUME Succeed(Main, "idle"), ping(Main) \in readable', open' = <<>>
      PROVE  Kept'
  <2>1. returned' = returned \cup {ping(Main)} /\ pc'[Main] = "idle"
    BY <1>0, <1>4, <1>9 DEF Succeed, Goto
  <2>2. Loss'
    BY <1>0, <2>1, FS_AddElement DEF Kept, Loss
  <2>3. Clean' /\ ReturnedIsReadable'
    BY <1>4, <1>6, <1>9, <2>1 DEF Clean, ReturnedIsReadable
  <2> QED
    BY <1>1, <2>2, <2>3 DEF Kept
<1>10. ASSUME NEW l \in PCs, Continue(Main, l),
              open' = CASE l = "end"      -> <<Whole(ping(Main))>>
                        [] l = "otherEnd" -> <<Whole(other(Main))>>
                        [] OTHER          -> <<>>
       PROVE  Kept'
  <2>1. pc'[Main] = l /\ UNCHANGED <<passes, returned, dead>>
    BY <1>0, <1>4, <1>10 DEF Continue, Goto
  <2>2. Clean'
    BY <1>10, <2>1 DEF Clean, ping, other
  <2> QED
    BY <1>1, <1>7, <2>1, <2>2 DEF Kept
<1>11. ASSUME NEW l \in {"record", "other"}, pc[Main] = "idle", NextPass(Main, l)
       PROVE  Kept'
  <2>1. pc'[Main] = l /\ UNCHANGED <<open, returned>>
    BY <1>0, <1>4, <1>11 DEF NextPass, Goto, outVars
  <2> QED
    BY <1>1, <1>2, <1>7, <1>11, <2>1 DEF Kept, Clean
<1>12. \A id : Append(<<>>, Whole(id)) = <<Whole(id)>>
  OBVIOUS
<1> USE DEF At, PCs
<1>13. CASE RustEvent(Main) \/ PyEvent(Main)
  BY <1>11, <1>13 DEF RustEvent, PyEvent
<1>14. CASE RustPing(Main)
  BY <1>2, <1>8, <1>10, <1>14 DEF RustPing, outVars
<1>15. CASE RustPrint(Main)
  <2>1. CASE pc[Main] = "write" /\ Text(ping(Main)) /\ Continue(Main, "end")
    BY <1>2, <1>10, <1>12, <2>1 DEF Text
  <2>2. CASE pc[Main] = "write" /\ PrintLine(ping(Main)) /\ Succeed(Main, "idle")
    BY <1>2, <1>3, <1>9, <2>2, CleanLine DEF PrintLine
  <2>3. CASE pc[Main] = "end" /\ Newline /\ Succeed(Main, "idle")
    <3>1. ping(Main) \in readable'
      BY <1>2, <1>3, <2>3 DEF Newline, readable
    <3> QED
      BY <1>9, <2>3, <3>1 DEF Newline
  <2> QED
    BY <1>8, <1>15, <2>1, <2>2, <2>3 DEF RustPrint
<1>16. CASE PyMain(Main)
  <2>1. CASE pc[Main] = "other"
    BY <1>2, <1>8, <1>10, <1>12, <1>16, <2>1 DEF PyMain, Text
  <2>2. CASE pc[Main] = "otherEnd"
    BY <1>8, <1>10, <1>16, <2>2 DEF PyMain, Newline
  <2> QED
    BY <1>16, <2>1, <2>2 DEF PyMain
<1>17. CASE PyRecord(Main)
  BY <1>2, <1>8, <1>10, <1>17 DEF PyRecord, outVars
<1>18. CASE PyEmit(Main)
  <2>1. CASE pc[Main] = "write"
    BY <1>2, <1>8, <1>10, <1>12, <1>18, <2>1 DEF PyEmit, Text
  <2>2. CASE pc[Main] = "end"
    <3>1. Newline => ping(Main) \in readable'
      BY <1>2, <1>3, <2>2 DEF Newline, readable
    <3> QED
      BY <1>8, <1>9, <1>18, <2>2, <3>1 DEF PyEmit, Newline
  <2> QED
    BY <1>18, <2>1, <2>2 DEF PyEmit
<1> QED
  BY <1>13, <1>14, <1>15, <1>16, <1>17, <1>18 DEF RustStep, PyStep

LEMMA KeptStep == Kept /\ [Next]_vars => Kept'
<1> SUFFICES ASSUME Kept, [Next]_vars PROVE Kept'
  OBVIOUS
<1>0. Calls'
  BY CallsStep DEF Kept
<1>1. CASE Killed \/ UNCHANGED vars
  <2>1. UNCHANGED <<language, returned, pc, passes, outVars>>
    BY <1>1 DEF Killed, Die, vars, callVars
  <2>2. dead' \/ UNCHANGED dead
    BY <1>1 DEF Killed, Die, vars, callVars
  <2>3. Loss'
    BY <2>1, LossUnmoved DEF Kept
  <2>4. Clean' /\ ReturnedIsReadable'
    BY <2>1, <2>2 DEF Kept, Clean, ReturnedIsReadable, readable, outVars, ping, other
  <2> QED
    BY <1>0, <2>3, <2>4 DEF Kept
<1> QED
  BY <1>1, KeptGo, KeptMain DEF Next, Terminated

LEMMA LossMeansBounded == Kept => LossBounded
<1> SUFFICES ASSUME Kept PROVE Cardinality(Lost) <= 2 * failures
  BY DEF Lost, LossBounded
<1>1. failures \in Nat
  BY DEF Kept, Calls, TypeOK
<1>2. CASE language = "go"
  <2>1. Cardinality(Lost) \in Nat
    BY FS_Subset, FS_CardinalityType DEF Kept, Loss, Lost
  <2>2. Spoilt \in {0, 1}
    BY DEF Spoilt
  <2> QED
    BY <1>1, <1>2, <2>1, <2>2 DEF Kept, Loss
<1>3. CASE language # "go"
  <2>1. Lost = {}
    BY <1>3 DEF Kept, ReturnedIsReadable, Lost
  <2> QED
    BY <1>1, <2>1, FS_EmptySet
<1> QED
  BY <1>2, <1>3

(* So is the account of what a failed write costs. *)
THEOREM Printing == Spec => []Kept
BY KeptInit, KeptStep, PTL DEF Spec

(* In Rust and Python a record that returned has its line, whole and on a
   line of its own. *)
THEOREM ReturnedStaysReadable == Spec => []ReturnedIsReadable
BY Printing, PTL DEF Kept

(* However many goroutines share the Writer, a failed write costs two pings
   at most. *)
THEOREM LossIsBounded == Spec => []LossBounded
BY Printing, LossMeansBounded, PTL
=============================================================================
