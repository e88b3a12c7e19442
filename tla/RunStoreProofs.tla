--------------------------- MODULE RunStoreProofs ---------------------------
(***************************************************************************)
(* What the run store guarantees for every set of updates, every number of *)
(* crashes and restarts, and (where it says so) every way in which a disk  *)
(* write can fail.                                                         *)
(***************************************************************************)
EXTENDS RunStore, SequenceTheorems, TLAPS

LEMMA EventIsLine ==
  ASSUME NEW n \in Nat, NEW s \in State
  PROVE  Event(n, s) \in Line
  BY DEF Event, Line

LEMMA JunkIsLine == Junk \in Line
  BY DEF Junk, Line, State

(* A write, complete or not, leaves a text made of lines. *)
LEMMA WriteType ==
  ASSUME lines \in Seq(Line), ended \in BOOLEAN, lines = <<>> => ended,
         NEW e \in Line, NEW extent \in WriteExtent, Write(e, extent)
  PROVE  lines' \in Seq(Line) /\ ended' \in BOOLEAN /\ (lines' = <<>> => ended')
<1>1. ASSUME NEW line \in Line
      PROVE  Put(line) \in Seq(Line) /\ Put(line) # <<>>
  <2>1. CASE ended
    <3>1. Put(line) = Append(lines, line)
      BY <2>1 DEF Put
    <3>2. Append(lines, line) \in Seq(Line)
      OBVIOUS
    <3>3. Len(Append(lines, line)) # 0
      OBVIOUS
    <3>4. QED
      BY <3>1, <3>2, <3>3
  <2>2. CASE ~ended
    <3>1. Len(lines) \in 1..Len(lines)
      BY <2>2
    <3>2. QED
      BY <2>2, <3>1, JunkIsLine DEF Put
  <2>3. QED
    BY <2>1, <2>2
<1>2. QED
  BY <1>1, JunkIsLine DEF Write, WriteExtent

-----------------------------------------------------------------------------
(* Types.  Beside TypeOK: text without lines is ended, and an operation that
   is being written stands at the head of the queue. *)
TInv ==
  /\ TypeOK
  /\ lines = <<>> => ended
  /\ phase # "idle" /\ record => queue # <<>>

LEMMA EmptyType ==
  <<>> \in State /\ <<>> \in Seq(Line) /\ <<>> \in Seq(Update)
  /\ <<>> \in Seq(State) /\ Len(<<>>) = 0
  BY DEF State

LEMMA SettleType ==
  ASSUME TInv, NEW answer \in {"acked", "rejected"},
         record => queue # <<>>, Settle(answer)
  PROVE  /\ queue' \in Seq(Update)
         /\ phase' = "idle"
         /\ outcome' \in [Update -> {"new", "queued", "acked", "rejected", "unknown"}]
         /\ ~record => queue' = <<>>
  BY DEF TInv, TypeOK, Settle

LEMMA ProjectionType ==
  ASSUME NEW s \in State
  PROVE  <<s>> \in Seq(State) /\ Len(<<s>>) <= 1
  OBVIOUS

LEMMA TypeStep == TInv /\ [Next]_vars => TInv'
<1> SUFFICES ASSUME TInv, [Next]_vars PROVE TInv'
  OBVIOUS
<1> USE DEF State
<1>1. CASE Create
  BY <1>1, EventIsLine DEF Create, TInv, TypeOK
<1>2. ASSUME NEW u \in Update, Submit(u) PROVE TInv'
  BY <1>2 DEF Submit, TInv, TypeOK, disk
<1>3. CASE Begin
  <2>1. Append(current, Head(queue)) \in State /\ nextSeq \in Nat
    BY <1>3 DEF Begin, TInv, TypeOK
  <2>2. Draft(Head(queue)) \in Line
    BY <2>1, EventIsLine DEF Draft
  <2>3. QED
    BY <1>3, <2>2 DEF Begin, TInv, TypeOK, disk
<1>4. CASE Refuse
  BY <1>4, SettleType DEF Refuse, TInv, TypeOK, disk
<1>5. CASE AppendOk
  <2>1. lines' \in Seq(Line) /\ ended' \in BOOLEAN /\ (lines' = <<>> => ended')
    BY <1>5, WriteType DEF AppendOk, TInv, TypeOK, WriteExtent
  <2>2. pending.state \in State /\ SeqAfter(pending) \in Nat
    BY <1>5 DEF AppendOk, TInv, TypeOK, Line, SeqAfter
  <2>3. QED
    BY <1>5, <2>1, <2>2 DEF AppendOk, TInv, TypeOK
<1>6. ASSUME NEW extent \in LiveFault, AppendFails(extent) PROVE TInv'
  <2>1. lines' \in Seq(Line) /\ ended' \in BOOLEAN /\ (lines' = <<>> => ended')
    BY <1>6, WriteType, LiveFaultAssumption DEF AppendFails, TInv, TypeOK
  <2>2. QED
    BY <1>6, <2>1, SettleType DEF AppendFails, TInv, TypeOK
<1>7. CASE Project
  <2>1. projection' \in Seq(State) /\ Len(projection') <= 1
    BY <1>7, ProjectionType DEF Project, TInv, TypeOK
  <2>2. QED
    BY <1>7, <2>1, SettleType DEF Project, TInv, TypeOK
<1>8. CASE Crash
  <2>1. lines' \in Seq(Line) /\ ended' \in BOOLEAN /\ (lines' = <<>> => ended')
    BY <1>8, WriteType DEF Crash, TInv, TypeOK
  <2>2. projection' \in Seq(State) /\ Len(projection') <= 1
    BY <1>8, ProjectionType DEF Crash, TInv, TypeOK
  <2>3. up' = FALSE /\ record' = FALSE /\ current' = <<>> /\ nextSeq' = 0
        /\ queue' = <<>> /\ phase' = "idle" /\ pending' = Junk /\ dir' = dir
    BY <1>8 DEF Crash, Forget
  <2>4. outcome' \in [Update -> {"new", "queued", "acked", "rejected", "unknown"}]
    BY <1>8 DEF Crash, TInv, TypeOK
  <2>5. QED
    <3>1. TypeOK'
      BY <2>1, <2>2, <2>3, <2>4, JunkIsLine, EmptyType DEF TInv, TypeOK
    <3>2. QED
      BY <3>1, <2>1, <2>3 DEF TInv
<1>9. CASE Load
  <2>1. Kept \in 1..Len(lines)
    BY <1>9 DEF Load, Loadable, Kept, TInv, TypeOK
  <2>2. lines[Kept] \in Line
    BY <2>1, ElementOfSeq DEF TInv, TypeOK
  <2>3. Recovered \in State
    BY <2>2 DEF Recovered, Line
  <2>4. SubSeq(lines, 1, Kept) \in Seq(Line)
    BY <2>1 DEF TInv, TypeOK
  <2>5. QED
    BY <1>9, <2>1, <2>3, <2>4 DEF Load, TInv, TypeOK
<1>10. CASE LoadRefused
  BY <1>10 DEF LoadRefused, TInv, TypeOK, disk
<1>11. CASE UNCHANGED vars
  BY <1>11 DEF vars, disk, memory, TInv, TypeOK
<1>12. QED
  BY <1>1, <1>2, <1>3, <1>4, <1>5, <1>6, <1>7, <1>8, <1>9, <1>10, <1>11 DEF Next

LEMMA InitType == Init => TInv
<1> SUFFICES ASSUME Init PROVE TInv
  OBVIOUS
<1>1. dir \in BOOLEAN /\ ended \in BOOLEAN /\ up \in BOOLEAN /\ record \in BOOLEAN
      /\ phase = "idle" /\ up /\ ended /\ ~record
  BY DEF Init
<1>2. lines \in Seq(Line) /\ projection \in Seq(State) /\ Len(projection) <= 1
      /\ current \in State /\ nextSeq \in Nat /\ queue \in Seq(Update) /\ queue = <<>>
  BY EmptyType DEF Init
<1>3. pending \in Line
      /\ outcome \in [Update -> {"new", "queued", "acked", "rejected", "unknown"}]
  BY JunkIsLine DEF Init
<1>4. QED
  BY <1>1, <1>2, <1>3 DEF TInv, TypeOK

(* Every variable keeps its type, and a stopped process holds nothing. *)
THEOREM RunStoreType == Spec => []TypeOK
<1>1. TInv => TypeOK
  BY DEF TInv
<1>2. QED
  BY <1>1, InitType, TypeStep, PTL DEF Spec

-----------------------------------------------------------------------------
(* The log under every kind of write failure *)

Acked(u) == outcome[u] = "acked"

NoneAcked == \A u \in Update : ~Acked(u)

AllGood == \A i \in 1..Kept : Good(i)

(* Where the record's next sequence number stands against a log that still
   loads: at its end, or one short of it behind a failed write that left a
   whole event. *)
Aligned ==
  /\ Kept \in {nextSeq, nextSeq + 1}
  /\ Len(lines) = nextSeq => ended

(* What the event being written is *)
PendingFits ==
  phase = "append" =>
    /\ pending.ok /\ pending.seq = nextSeq
    /\ record => pending.state = Append(current, Head(queue))
    /\ ~record => lines = <<>>

CurrentIsLogged ==
  nextSeq > 0 /\ lines[nextSeq].state = current

(* The strengthening of NoSilentLoss that every step preserves *)
LossInv ==
  /\ TInv
  /\ ~dir => lines = <<>> /\ phase = "idle" /\ ~record /\ NoneAcked
  /\ ~record /\ phase # "idle" => NoneAcked
  /\ ~record /\ phase # "project" => nextSeq = 0
  /\ PendingFits
  /\ AllGood =>
       /\ record \/ phase # "idle" => Aligned
       /\ record => CurrentIsLogged /\ \A u \in Update : Acked(u) => Reflects(current, u)
       /\ Kept > 0 => \A u \in Update : Acked(u) => Reflects(Recovered, u)
       /\ phase = "project" =>
            /\ CurrentIsLogged /\ Kept = nextSeq
            /\ record => Reflects(current, Head(queue))

(* What a write, complete or not, does to the lines *)
LEMMA WriteEffect ==
  ASSUME lines \in Seq(Line), ended \in BOOLEAN, lines = <<>> => ended,
         NEW e \in Line, NEW extent \in WriteExtent, Write(e, extent)
  PROVE  /\ extent = "nothing" => lines' = lines /\ ended' = ended
         /\ extent # "nothing" => ended' = (extent = "all")
         /\ extent # "nothing" /\ ended =>
              /\ Len(lines') = Len(lines) + 1
              /\ \A i \in 1..Len(lines) : lines'[i] = lines[i]
              /\ lines'[Len(lines) + 1] = IF extent = "part" THEN Junk ELSE e
         /\ extent # "nothing" /\ ~ended =>
              /\ Len(lines) > 0
              /\ Len(lines') = Len(lines)
              /\ \A i \in 1..(Len(lines) - 1) : lines'[i] = lines[i]
              /\ lines'[Len(lines)] = Junk
<1>1. CASE extent = "nothing"
  BY <1>1 DEF Write
<1>2. CASE extent # "nothing"
  <2> DEFINE line == IF extent = "part" THEN Junk ELSE e
  <2>1. line \in Line
    BY JunkIsLine
  <2>2. lines' = Put(line) /\ ended' = (extent = "all")
    BY <1>2 DEF Write, WriteExtent
  <2>3. CASE ended
    <3>1. lines' = Append(lines, line)
      BY <2>2, <2>3 DEF Put
    <3>2. Len(lines') = Len(lines) + 1 /\ lines'[Len(lines) + 1] = line
          /\ \A i \in 1..Len(lines) : lines'[i] = lines[i]
      BY <2>1, <3>1, AppendProperties
    <3>3. QED
      BY <1>2, <2>2, <2>3, <3>2
  <2>4. CASE ~ended
    <3>1. lines' = [lines EXCEPT ![Len(lines)] = Junk]
      BY <2>2, <2>4 DEF Put
    <3>2. Len(lines) \in 1..Len(lines)
      BY <2>4
    <3>3. Len(lines') = Len(lines) /\ lines'[Len(lines)] = Junk
          /\ \A i \in 1..(Len(lines) - 1) : lines'[i] = lines[i]
      BY <3>1, <3>2, JunkIsLine, ExceptSeq
    <3>4. QED
      BY <1>2, <2>2, <2>4, <3>2, <3>3
  <2>5. QED
    BY <2>3, <2>4
<1>3. QED
  BY <1>1, <1>2

(* A line that parses badly for load stays in the way of load. *)
LEMMA SpoiledStaysSpoiled ==
  ASSUME TInv, NEW e \in Line, NEW extent \in WriteExtent, Write(e, extent), ~AllGood
  PROVE  ~AllGood'
<1>1. PICK i \in 1..Kept : ~Good(i)
  BY DEF AllGood
<1>2. Len(lines) \in Nat /\ Len(lines') \in Nat /\ Kept \in Nat
  BY WriteType DEF TInv, TypeOK, Kept, Torn
<1>3. CASE extent = "nothing"
  BY <1>3, WriteEffect DEF TInv, TypeOK, AllGood, Kept, Torn, Good
<1>4. CASE extent # "nothing" /\ ended
  <2>1. Len(lines') = Len(lines) + 1 /\ Kept = Len(lines) /\ lines'[i] = lines[i]
    BY <1>1, <1>2, <1>4, WriteEffect DEF TInv, TypeOK, Kept, Torn
  <2>2. i \in 1..Kept'
    BY <1>1, <1>2, <2>1 DEF Kept
  <2>3. QED
    BY <1>1, <2>1, <2>2 DEF AllGood, Good
<1>5. CASE extent # "nothing" /\ ~ended
  <2>1. Len(lines') = Len(lines) /\ Len(lines) > 0
        /\ \A j \in 1..(Len(lines) - 1) : lines'[j] = lines[j]
    BY <1>5, WriteEffect DEF TInv, TypeOK
  <2>2. i < Len(lines)
    <3>1. CASE Torn
      BY <1>1, <1>2, <3>1 DEF Kept
    <3>2. CASE ~Torn
      <4>1. Good(Len(lines))
        BY <1>5, <2>1, <3>2 DEF Torn
      <4>2. QED
        BY <1>1, <1>2, <3>2, <4>1 DEF Kept
    <3>3. QED
      BY <3>1, <3>2
  <2>3. i \in 1..Kept' /\ lines'[i] = lines[i]
    BY <1>1, <1>2, <2>1, <2>2 DEF Kept
  <2>4. QED
    BY <1>1, <2>3 DEF AllGood, Good
<1>6. QED
  BY <1>3, <1>4, <1>5

(* An event with the next sequence number, written to an aligned log: if the
   log still loads, the logged prefix is untouched, what follows it is the
   event or what already followed it, and a complete write has put the event
   there. *)
LEMMA AlignedWrite ==
  ASSUME TInv, AllGood, Aligned,
         NEW e \in Line, e.ok, e.seq = nextSeq,
         NEW extent \in WriteExtent, Write(e, extent),
         AllGood'
  PROVE  /\ Kept' \in {nextSeq, nextSeq + 1}
         /\ Len(lines') = nextSeq => ended'
         /\ \A i \in 1..nextSeq : lines'[i] = lines[i]
         /\ Kept' = nextSeq + 1 =>
              \/ lines'[Kept'] = e
              \/ Kept = nextSeq + 1 /\ lines'[Kept'] = lines[Kept]
         /\ extent = "all" => Kept' = nextSeq + 1 /\ lines'[Kept'] = e
<1>1. Len(lines) \in Nat /\ Len(lines') \in Nat /\ nextSeq \in Nat
      /\ ended \in BOOLEAN /\ ended' \in BOOLEAN
  BY WriteType DEF TInv, TypeOK
<1>2. CASE extent = "nothing"
  BY <1>1, <1>2, WriteEffect DEF TInv, TypeOK, Aligned, Kept, Torn, Good
<1>3. CASE extent # "nothing" /\ ended
  <2>0. PICK n \in Nat : n = Len(lines)
    BY <1>1
  <2>1. /\ Kept = n
        /\ Len(lines') = n + 1
        /\ \A i \in 1..n : lines'[i] = lines[i]
        /\ lines'[n + 1] = IF extent = "part" THEN Junk ELSE e
        /\ ended' = (extent = "all")
    BY <1>1, <1>3, <2>0, WriteEffect DEF TInv, TypeOK, Kept, Torn
  <2>2. n \in {nextSeq, nextSeq + 1}
    BY <2>0, <2>1 DEF Aligned
  <2>3. lines' # <<>>
    BY <1>1, <2>0, <2>1
  <2>4. Kept' = IF Torn' THEN n ELSE n + 1
    BY <1>1, <2>1 DEF Kept
  <2>5. CASE Torn'
    <3>1. Kept' = n /\ extent # "all" /\ ~Good(n + 1)'
      BY <1>1, <2>1, <2>4, <2>5 DEF Torn, Good
    <3>2. Kept' \in {nextSeq, nextSeq + 1}
      BY <2>2, <3>1
    <3>3. \A i \in 1..nextSeq : lines'[i] = lines[i]
      BY <1>1, <2>1, <2>2
    <3>4. Kept' = nextSeq + 1 => Kept = nextSeq + 1 /\ lines'[Kept'] = lines[Kept]
      BY <1>1, <2>1, <2>2, <3>1
    <3>5. Len(lines') = n + 1 /\ n + 1 # nextSeq
      BY <1>1, <2>1, <2>2
    <3>6. QED
      BY <3>1, <3>2, <3>3, <3>4, <3>5
  <2>6. CASE ~Torn'
    <3>1. Kept' = n + 1 /\ Good(n + 1)'
      BY <1>1, <2>1, <2>4, <2>6 DEF AllGood
    <3>2. lines'[n + 1].ok /\ lines'[n + 1].seq = n
      BY <1>1, <3>1 DEF Good
    <3>3. lines'[n + 1] = e
      BY <2>1, <3>2 DEF Junk
    <3>4. n = nextSeq
      BY <1>1, <3>2, <3>3
    <3>5. QED
      BY <1>1, <2>1, <3>1, <3>3, <3>4
  <2>7. QED
    BY <2>5, <2>6
<1>4. CASE extent # "nothing" /\ ~ended
  <2>0. PICK n \in Nat : n = Len(lines)
    BY <1>1
  <2>1. /\ n > 0
        /\ Len(lines') = n
        /\ \A i \in 1..(n - 1) : lines'[i] = lines[i]
        /\ lines'[n] = Junk
        /\ ended' = (extent = "all")
    BY <1>1, <1>4, <2>0, WriteEffect DEF TInv, TypeOK
  <2>2. ~Good(n)'
    BY <2>1 DEF Good, Junk
  <2>3. Torn' /\ Kept' = n - 1 /\ extent # "all"
    <3>1. CASE Torn'
      BY <1>1, <2>1, <3>1 DEF Kept, Torn
    <3>2. CASE ~Torn'
      <4>1. Kept' = n
        BY <2>1, <3>2 DEF Kept
      <4>2. QED
        BY <1>1, <2>1, <2>2, <4>1 DEF AllGood
    <3>3. QED
      BY <3>1, <3>2
  <2>4. n - 1 \in {nextSeq, nextSeq + 1}
    <3>1. CASE Torn
      BY <1>1, <2>0, <3>1 DEF Aligned, Kept
    <3>2. CASE ~Torn
      <4>1. Kept = n
        BY <2>0, <3>2 DEF Kept
      <4>2. n # nextSeq
        BY <1>4, <2>0 DEF Aligned
      <4>3. QED
        BY <1>1, <4>1, <4>2 DEF Aligned
    <3>3. QED
      BY <3>1, <3>2
  <2>5. \A i \in 1..nextSeq : lines'[i] = lines[i]
    BY <1>1, <2>1, <2>4
  <2>6. Kept' = nextSeq + 1 => Kept = nextSeq + 1 /\ lines'[Kept'] = lines[Kept]
    <3>1. Kept = n \/ Kept = n - 1
      BY <2>0 DEF Kept
    <3>2. Kept' = nextSeq + 1 => Kept = n - 1
      BY <1>1, <2>3, <3>1 DEF Aligned
    <3>3. QED
      BY <1>1, <2>1, <2>3, <3>2
  <2>7. QED
    BY <1>1, <2>1, <2>3, <2>4, <2>5, <2>6
<1>5. QED
  BY <1>2, <1>3, <1>4

LEMMA ReflectsAppend ==
  ASSUME NEW s \in Seq(Update), NEW u \in Update
  PROVE  /\ Reflects(Append(s, u), u)
         /\ \A v \in Update : Reflects(s, v) => Reflects(Append(s, u), v)
<1>1. /\ Append(s, u) \in Seq(Update)
      /\ Len(Append(s, u)) = Len(s) + 1
      /\ \A i \in 1..Len(s) : Append(s, u)[i] = s[i]
      /\ Append(s, u)[Len(s) + 1] = u
  BY AppendProperties
<1>2. DOMAIN s = 1..Len(s) /\ DOMAIN Append(s, u) = 1..(Len(s) + 1) /\ Len(s) \in Nat
  BY <1>1, LenProperties
<1>3. QED
  BY <1>1, <1>2 DEF Reflects

(* LossInv is preserved while the log on disk is untouched. *)
LEMMA SameLog ==
  ASSUME LossInv, UNCHANGED <<lines, ended>>
  PROVE  /\ Kept' = Kept /\ AllGood' = AllGood /\ Recovered' = Recovered
         /\ nextSeq' = nextSeq => Aligned' = Aligned
         /\ nextSeq' = nextSeq /\ current' = current => CurrentIsLogged' = CurrentIsLogged
<1>1. Torn' = Torn
  BY DEF Torn, Good
<1>2. Kept' = Kept
  BY <1>1 DEF Kept
<1>3. AllGood' = AllGood /\ Recovered' = Recovered
  BY <1>2 DEF AllGood, Recovered, Good
<1>4. QED
  BY <1>2, <1>3 DEF Aligned, CurrentIsLogged

(* A failed or interrupted write of the pending event: acknowledged updates
   stay in whatever a restart would load. *)
LEMMA PartialWrite ==
  ASSUME LossInv, up, phase = "append",
         NEW extent \in WriteExtent, Write(pending, extent), AllGood'
  PROVE  /\ Kept' \in {nextSeq, nextSeq + 1}
         /\ Len(lines') = nextSeq => ended'
         /\ record => nextSeq > 0 /\ lines'[nextSeq].state = current
         /\ \A u \in Update : Acked(u) /\ Kept' > 0 => Reflects(lines'[Kept'].state, u)
<1>1. AllGood
  BY SpoiledStaysSpoiled DEF LossInv, TInv, TypeOK
<1>2. Aligned
  BY <1>1 DEF LossInv
<1>3. pending \in Line /\ pending.ok /\ pending.seq = nextSeq
  BY DEF LossInv, TInv, TypeOK, PendingFits
<1>4. /\ Kept' \in {nextSeq, nextSeq + 1}
      /\ Len(lines') = nextSeq => ended'
      /\ \A i \in 1..nextSeq : lines'[i] = lines[i]
      /\ Kept' = nextSeq + 1 =>
           \/ lines'[Kept'] = pending
           \/ Kept = nextSeq + 1 /\ lines'[Kept'] = lines[Kept]
  BY <1>1, <1>2, <1>3, AlignedWrite DEF LossInv
<1>5. nextSeq \in Nat
  BY DEF LossInv, TInv, TypeOK
<1>6. CASE record
  <2>1. nextSeq > 0 /\ lines[nextSeq].state = current
        /\ \A u \in Update : Acked(u) => Reflects(current, u)
    BY <1>1, <1>6 DEF LossInv, CurrentIsLogged
  <2>2. lines'[nextSeq].state = current
    BY <1>4, <1>5, <2>1
  <2>3. ASSUME NEW u \in Update, Acked(u) PROVE Reflects(lines'[Kept'].state, u)
    <3>1. CASE Kept' = nextSeq
      BY <2>1, <2>2, <2>3, <3>1
    <3>2. CASE lines'[Kept'] = pending
      <4>1. pending.state = Append(current, Head(queue))
        BY <1>6 DEF LossInv, PendingFits
      <4>2. current \in Seq(Update) /\ Head(queue) \in Update
        BY <1>6 DEF LossInv, TInv, TypeOK, State
      <4>3. QED
        BY <2>1, <2>3, <3>2, <4>1, <4>2, ReflectsAppend
    <3>3. CASE Kept = nextSeq + 1 /\ lines'[Kept'] = lines[Kept]
      BY <1>1, <1>5, <2>3, <3>3 DEF LossInv, Recovered
    <3>4. QED
      BY <1>4, <3>1, <3>2, <3>3
  <2>4. QED
    BY <1>4, <1>6, <2>1, <2>2, <2>3
<1>7. CASE ~record
  BY <1>4, <1>7 DEF LossInv, NoneAcked
<1>8. QED
  BY <1>6, <1>7 DEF LossInv, TInv, TypeOK

LEMMA LossStep == LossInv /\ [Next]_vars => LossInv'
<1> SUFFICES ASSUME LossInv, [Next]_vars PROVE LossInv'
  OBVIOUS
<1>0. TInv /\ TInv'
  BY TypeStep DEF LossInv
<1>1. CASE Create
  <2>1. lines = <<>> /\ ended /\ NoneAcked /\ nextSeq = 0 /\ ~record
    BY <1>1 DEF Create, LossInv, TInv
  <2>2. Kept = 0 /\ Kept' = 0 /\ lines' = <<>> /\ ended'
    BY <1>1, <2>1 DEF Create, Kept, Torn
  <2>3. PendingFits'
    BY <1>1, <2>1 DEF Create, PendingFits, Event
  <2>4. QED
    BY <1>0, <1>1, <2>1, <2>2, <2>3
       DEF Create, LossInv, Aligned, NoneAcked, Acked
<1>2. ASSUME NEW u \in Update, Submit(u) PROVE LossInv'
  <2>1. \A v \in Update : Acked(v)' = Acked(v)
    BY <1>0, <1>2 DEF Submit, Acked, TInv, TypeOK
  <2>2. phase # "idle" => Head(queue') = Head(queue)
    BY <1>0, <1>2 DEF Submit, TInv, TypeOK
  <2>3. QED
    BY <1>0, <1>2, <2>1, <2>2, SameLog
       DEF Submit, disk, LossInv, PendingFits, Aligned, CurrentIsLogged, Recovered, NoneAcked
<1>3. CASE Begin
  <2>1. record
    BY <1>0, <1>3 DEF Begin, TInv, TypeOK
  <2>2. PendingFits'
    BY <1>3, <2>1 DEF Begin, PendingFits, Draft, Event
  <2>3. /\ phase' = "append" /\ record' = record /\ dir' = dir
        /\ nextSeq' = nextSeq /\ current' = current
        /\ \A v \in Update : Acked(v)' = Acked(v)
    BY <1>3 DEF Begin, disk, Acked
  <2>4. /\ Kept' = Kept /\ AllGood' = AllGood /\ Recovered' = Recovered
        /\ Aligned' = Aligned /\ CurrentIsLogged' = CurrentIsLogged
    BY <1>3, <2>3, SameLog DEF Begin, disk
  <2>5. dir
    BY <1>0, <2>1 DEF LossInv, TInv, TypeOK
  <2>6. QED
    BY <1>0, <2>1, <2>2, <2>3, <2>4, <2>5 DEF LossInv
<1>4. CASE Refuse
  <2>1. record
    BY <1>0, <1>4 DEF Refuse, TInv, TypeOK
  <2>2. \A v \in Update : Acked(v)' => Acked(v)
    BY <1>0, <1>4, <2>1 DEF Refuse, Settle, Acked, TInv, TypeOK
  <2>3. phase' = "idle"
    BY <1>4 DEF Refuse, Settle
  <2>4. QED
    BY <1>0, <1>4, <2>1, <2>2, <2>3, SameLog
       DEF Refuse, disk, LossInv, PendingFits, Aligned, CurrentIsLogged, Recovered, NoneAcked
<1>5. CASE AppendOk
  <2>1. Write(pending, "all") /\ up /\ phase = "append"
    BY <1>5 DEF AppendOk
  <2>2. \A v \in Update : Acked(v)' = Acked(v)
    BY <1>5 DEF AppendOk, Acked
  <2>3. pending \in Line /\ pending.ok /\ pending.seq = nextSeq /\ nextSeq \in Nat
    BY <1>0, <2>1 DEF TInv, TypeOK, LossInv, PendingFits
  <2>4. nextSeq' = nextSeq + 1 /\ current' = pending.state /\ phase' = "project" /\ record' = record
    BY <1>5, <2>3 DEF AppendOk, SeqAfter
  <2>5. ASSUME AllGood'
        PROVE  /\ Kept' = nextSeq' /\ lines'[nextSeq'].state = current'
               /\ Len(lines') = nextSeq' => ended'
               /\ record => Reflects(current', Head(queue))
               /\ \A v \in Update : Acked(v) => Reflects(current', v)
    <3>1. AllGood /\ Aligned
      BY <2>1, <2>3, <2>5, SpoiledStaysSpoiled DEF LossInv, WriteExtent
    <3>2. Kept' = nextSeq + 1 /\ lines'[Kept'] = pending
      BY <1>0, <2>1, <2>3, <2>5, <3>1, AlignedWrite DEF WriteExtent
    <3>3. lines = <<>> => ended
      BY <1>0 DEF TInv
    <3>4. ended'
      BY <1>0, <2>1, <2>3, <3>3, WriteEffect DEF TInv, TypeOK, WriteExtent
    <3>5. CASE record
      <4>1. current' = Append(current, Head(queue))
        BY <2>1, <2>4, <3>5 DEF LossInv, PendingFits
      <4>2. current \in Seq(Update) /\ Head(queue) \in Update
        BY <1>0, <2>1, <3>5 DEF TInv, TypeOK, State
      <4>3. \A v \in Update : Acked(v) => Reflects(current, v)
        BY <3>1, <3>5 DEF LossInv
      <4>4. QED
        BY <2>4, <3>2, <3>4, <4>1, <4>2, <4>3, ReflectsAppend
    <3>6. CASE ~record
      BY <2>1, <2>4, <3>2, <3>4, <3>6 DEF LossInv, NoneAcked
    <3>7. QED
      BY <1>0, <3>5, <3>6 DEF TInv, TypeOK
  <2>6. queue' = queue /\ dir' = dir
    BY <1>5 DEF AppendOk
  <2>7. QED
    BY <1>0, <2>1, <2>2, <2>3, <2>4, <2>5, <2>6
       DEF LossInv, PendingFits, Aligned, CurrentIsLogged, Recovered, NoneAcked
<1>6. ASSUME NEW extent \in LiveFault, AppendFails(extent) PROVE LossInv'
  <2>1. extent \in WriteExtent /\ Write(pending, extent) /\ up /\ phase = "append"
    BY <1>6, LiveFaultAssumption DEF AppendFails
  <2>2. \A v \in Update : Acked(v)' => Acked(v)
    BY <1>0, <1>6 DEF AppendFails, Settle, Acked, TInv, TypeOK
  <2>3. phase' = "idle" /\ UNCHANGED <<dir, record, current, nextSeq>>
    BY <1>6 DEF AppendFails, Settle
  <2>4. ASSUME AllGood', NEW v \in Update, Acked(v), record
        PROVE  Reflects(current, v)
    <3>1. AllGood
      BY <2>1, <2>4, SpoiledStaysSpoiled DEF LossInv, TInv, TypeOK
    <3>2. QED
      BY <2>4, <3>1 DEF LossInv
  <2>5. dir /\ (~record => nextSeq = 0)
    BY <1>0, <2>1 DEF LossInv, TInv, TypeOK
  <2>6. QED
    BY <1>0, <2>1, <2>2, <2>3, <2>4, <2>5, PartialWrite
       DEF LossInv, PendingFits, Aligned, CurrentIsLogged, Recovered, NoneAcked
<1>7. CASE Project
  <2>1. phase = "project" /\ phase' = "idle" /\ record' = TRUE
        /\ UNCHANGED <<dir, lines, ended, current, nextSeq>>
    BY <1>7 DEF Project, Settle
  <2>2. ASSUME NEW v \in Update, Acked(v)'
        PROVE  Acked(v) \/ (record /\ v = Head(queue))
    BY <1>0, <1>7, <2>2 DEF Project, Settle, Acked, TInv, TypeOK
  <2>3. ASSUME AllGood
        PROVE  /\ CurrentIsLogged /\ Kept = nextSeq
               /\ \A v \in Update : Acked(v)' => Reflects(current, v)
    <3>1. ~record => NoneAcked
      BY <2>1 DEF LossInv
    <3>2. QED
      BY <1>0, <2>1, <2>2, <2>3, <3>1 DEF LossInv, NoneAcked, TInv, TypeOK
  <2>4. QED
    BY <1>0, <2>1, <2>3, SameLog
       DEF LossInv, PendingFits, Aligned, CurrentIsLogged, Recovered
<1>8. CASE Crash
  <2>1. \A v \in Update : Acked(v)' => Acked(v)
    BY <1>0, <1>8 DEF Crash, Acked, TInv, TypeOK
  <2>2. record' = FALSE /\ phase' = "idle" /\ nextSeq' = 0 /\ dir' = dir
    BY <1>8 DEF Crash, Forget
  <2>3. ASSUME AllGood', Kept' > 0, NEW v \in Update, Acked(v)
        PROVE  Reflects(Recovered', v)
    <3>1. CASE phase = "append"
      <4>1. PICK extent \in WriteExtent : Write(pending, extent)
        BY <1>8, <3>1 DEF Crash
      <4>2. QED
        BY <1>8, <2>3, <3>1, <4>1, PartialWrite DEF Recovered, Crash
    <3>2. CASE phase # "append"
      <4>1. UNCHANGED <<lines, ended>>
        BY <1>8, <3>2 DEF Crash
      <4>2. QED
        BY <2>3, <4>1, SameLog DEF LossInv
    <3>3. QED
      BY <3>1, <3>2
  <2>4. ~dir => lines' = <<>>
    BY <1>8 DEF Crash, LossInv
  <2>5. QED
    BY <1>0, <2>1, <2>2, <2>3, <2>4 DEF LossInv, PendingFits, NoneAcked
<1>9. CASE Load
  <2>1. Kept \in 1..Len(lines) /\ AllGood
    BY <1>0, <1>9 DEF Load, Loadable, Kept, AllGood, TInv, TypeOK
  <2>2. Len(lines') = Kept /\ ended' /\ \A i \in 1..Kept : lines'[i] = lines[i]
    BY <1>0, <1>9, <2>1, SubSeqProperties DEF Load, TInv, TypeOK
  <2>3. Kept' = Kept
    BY <2>2 DEF Kept, Torn
  <2>4. Recovered' = Recovered /\ current' = Recovered /\ nextSeq' = Kept /\ record'
    BY <1>9, <2>1, <2>2, <2>3 DEF Recovered, Load
  <2>5. \A v \in Update : Acked(v)' = Acked(v)
    BY <1>9 DEF Load, Acked
  <2>6. phase' = "idle" /\ dir' = dir /\ dir
    BY <1>0, <1>9, <2>1 DEF Load, LossInv, TInv, TypeOK, Kept, Torn
  <2>7. QED
    BY <1>0, <2>1, <2>2, <2>3, <2>4, <2>5, <2>6
       DEF LossInv, PendingFits, Aligned, CurrentIsLogged, Recovered
<1>10. CASE LoadRefused
  BY <1>0, <1>10, SameLog
     DEF LoadRefused, disk, LossInv, PendingFits, Recovered, NoneAcked, Acked, TInv, TypeOK
<1>11. CASE UNCHANGED vars
  BY <1>0, <1>11, SameLog
     DEF vars, disk, memory, LossInv, PendingFits, Aligned, CurrentIsLogged, Recovered,
         NoneAcked, Acked
<1>12. QED
  BY <1>1, <1>2, <1>3, <1>4, <1>5, <1>6, <1>7, <1>8, <1>9, <1>10, <1>11 DEF Next

LEMMA LossInit == Init => LossInv
<1> SUFFICES ASSUME Init PROVE LossInv
  OBVIOUS
<1>1. TInv
  BY InitType
<1>2. lines = <<>> /\ phase = "idle" /\ ~record /\ nextSeq = 0 /\ NoneAcked
  BY DEF Init, NoneAcked, Acked
<1>3. Kept = 0
  BY <1>2 DEF Kept, Torn
<1>4. QED
  BY <1>1, <1>2, <1>3 DEF LossInv, PendingFits

(* However a disk write fails, in a live process or at a crash, a restart
   never loads a state without every acknowledged update. *)
THEOREM RunStoreNoSilentLoss == Spec => []NoSilentLoss
<1>1. LossInv => NoSilentLoss
  BY DEF LossInv, NoSilentLoss, Loadable, AllGood, Acked
<1>2. QED
  BY <1>1, LossInit, LossStep, PTL DEF Spec

-----------------------------------------------------------------------------
(* A disk whose failing appends leave nothing behind.  A crash may still cut a
   write anywhere. *)

CleanDisk == LiveFault \subseteq {"nothing"}

CleanInv ==
  /\ LossInv
  /\ AllGood
  /\ record \/ phase # "idle" => ended /\ Kept = nextSeq
  /\ Kept > 0 \/ NoneAcked

(* The pending event, written whole or in part to a log without defects,
   leaves one without defects. *)
LEMMA CleanWrite ==
  ASSUME CleanInv, phase = "append",
         NEW extent \in WriteExtent, Write(pending, extent)
  PROVE  /\ AllGood'
         /\ Kept' >= Kept
         /\ extent = "all" => Kept' = nextSeq + 1 /\ ended'
         /\ extent = "nothing" => Kept' = Kept /\ ended'
<1>0. TInv /\ ended /\ Kept = nextSeq
  BY DEF CleanInv, LossInv
<1>1. PICK n \in Nat : n = Len(lines)
  BY <1>0 DEF TInv, TypeOK
<1>2. n = nextSeq /\ Kept = n
  BY <1>0, <1>1 DEF Kept, Torn
<1>3. pending \in Line /\ pending.ok /\ pending.seq = n
  BY <1>0, <1>2 DEF CleanInv, LossInv, PendingFits, TInv, TypeOK
<1>4. CASE extent = "nothing"
  <2>1. lines' = lines /\ ended' = ended
    BY <1>4 DEF Write
  <2>2. Kept' = Kept /\ AllGood'
    BY <2>1 DEF CleanInv, AllGood, Kept, Torn, Good
  <2>3. QED
    BY <1>0, <1>1, <1>2, <1>4, <2>1, <2>2
<1>5. CASE extent # "nothing"
  <2>1. /\ Len(lines') = n + 1
        /\ \A i \in 1..n : lines'[i] = lines[i]
        /\ lines'[n + 1] = IF extent = "part" THEN Junk ELSE pending
        /\ ended' = (extent = "all")
    BY <1>0, <1>1, <1>3, <1>5, WriteEffect DEF TInv, TypeOK
  <2>2. lines' # <<>>
    BY <2>1
  <2>6. ended' = FALSE \/ (extent = "all" /\ ended')
    BY <2>1
  <2>3. CASE extent = "part"
    <3>1. lines'[n + 1].ok = FALSE /\ ended' = FALSE
      <4>1. lines'[n + 1] = Junk
        BY <2>1, <2>3
      <4>2. QED
        BY <2>6, <2>3, <4>1 DEF Junk
    <3>2. Torn'
      BY <2>1, <2>2, <3>1 DEF Torn, Good
    <3>3. Kept' = n
      BY <2>1, <3>2 DEF Kept
    <3>4. AllGood'
      BY <1>2, <2>1, <3>3 DEF CleanInv, AllGood, Good
    <3>5. QED
      BY <1>2, <2>3, <3>3, <3>4
  <2>4. CASE extent # "part"
    <3>1. lines'[n + 1] = pending
      BY <2>1, <2>4
    <3>2. ~Torn'
      BY <1>3, <2>1, <3>1 DEF Torn, Good
    <3>3. Kept' = n + 1
      BY <2>1, <3>2 DEF Kept
    <3>4. \A i \in 1..n : lines[i].ok /\ lines[i].seq = i - 1
      BY <1>2 DEF CleanInv, AllGood, Good
    <3>5. AllGood'
      BY <1>3, <2>1, <3>1, <3>3, <3>4 DEF AllGood, Good
    <3>6. extent = "all" => ended'
      BY <2>1
    <3>7. Kept' >= Kept /\ Kept' = nextSeq + 1
      BY <1>2, <3>3
    <3>8. QED
      BY <1>5, <3>5, <3>6, <3>7
  <2>5. QED
    BY <2>3, <2>4
<1>6. QED
  BY <1>4, <1>5

LEMMA CleanStep ==
  ASSUME CleanDisk PROVE CleanInv /\ [Next]_vars => CleanInv'
<1> SUFFICES ASSUME CleanInv, [Next]_vars PROVE CleanInv'
  OBVIOUS
<1>0. LossInv /\ LossInv' /\ TInv /\ TInv'
  BY LossStep DEF CleanInv, LossInv
<1>1. CASE AppendOk
  <2>1. phase = "append" /\ Write(pending, "all") /\ nextSeq' = nextSeq + 1
    BY <1>0, <1>1 DEF AppendOk, SeqAfter, LossInv, PendingFits
  <2>2. AllGood' /\ Kept' = nextSeq' /\ ended' /\ Kept' > 0
    BY <1>0, <2>1, CleanWrite DEF WriteExtent, TInv, TypeOK
  <2>3. QED
    BY <1>0, <2>2 DEF CleanInv
<1>2. ASSUME NEW extent \in LiveFault, AppendFails(extent) PROVE CleanInv'
  <2>1. extent = "nothing" /\ phase = "append" /\ Write(pending, extent) /\ nextSeq' = nextSeq
    BY <1>2 DEF AppendFails, CleanDisk
  <2>2. AllGood' /\ Kept' = Kept /\ ended'
    BY <2>1, CleanWrite DEF WriteExtent
  <2>3. NoneAcked => NoneAcked'
    BY <1>0, <1>2 DEF AppendFails, Settle, NoneAcked, Acked, TInv, TypeOK
  <2>4. QED
    BY <1>0, <2>1, <2>2, <2>3 DEF CleanInv
<1>3. CASE Crash
  <2>1. record' = FALSE /\ phase' = "idle"
    BY <1>3 DEF Crash, Forget
  <2>2. NoneAcked => NoneAcked'
    BY <1>0, <1>3 DEF Crash, NoneAcked, Acked, TInv, TypeOK
  <2>3. AllGood' /\ Kept' >= Kept /\ Kept \in Nat /\ Kept' \in Nat
    <3>1. Kept \in Nat /\ Kept' \in Nat
      BY <1>0 DEF Kept, Torn, TInv, TypeOK
    <3>2. CASE phase = "append"
      <4>1. PICK extent \in WriteExtent : Write(pending, extent)
        BY <1>3, <3>2 DEF Crash
      <4>2. QED
        BY <3>1, <3>2, <4>1, CleanWrite
    <3>3. CASE phase # "append"
      BY <1>0, <1>3, <3>1, <3>3, SameLog DEF Crash, CleanInv
    <3>4. QED
      BY <3>2, <3>3
  <2>4. QED
    BY <1>0, <2>1, <2>2, <2>3 DEF CleanInv
<1>4. CASE Load
  <2>1. Kept \in 1..Len(lines)
    BY <1>0, <1>4 DEF Load, Loadable, Kept, TInv, TypeOK
  <2>2. Len(lines') = Kept /\ ended' /\ \A i \in 1..Kept : lines'[i] = lines[i]
    BY <1>0, <1>4, <2>1, SubSeqProperties DEF Load, TInv, TypeOK
  <2>3. Kept' = Kept
    BY <2>2 DEF Kept, Torn
  <2>4. AllGood'
    BY <1>4, <2>2, <2>3 DEF Load, Loadable, AllGood, Good
  <2>5. QED
    BY <1>0, <1>4, <2>1, <2>2, <2>3, <2>4 DEF CleanInv, Load
<1>5. CASE Project
  <2>1. Kept' = Kept /\ AllGood' /\ ended' = ended /\ nextSeq' = nextSeq
    BY <1>0, <1>5, SameLog DEF Project, CleanInv
  <2>2. ended /\ Kept = nextSeq /\ Kept > 0
    BY <1>0, <1>5 DEF Project, CleanInv, LossInv, CurrentIsLogged
  <2>3. QED
    BY <1>0, <2>1, <2>2 DEF CleanInv
<1>6. CASE Create
  <2>1. lines = <<>> /\ nextSeq = 0 /\ ended
    BY <1>0, <1>6 DEF Create, LossInv, TInv
  <2>2. Kept = nextSeq
    BY <2>1 DEF Kept, Torn
  <2>3. Kept' = Kept /\ AllGood' /\ ended' /\ nextSeq' = nextSeq
    BY <1>0, <1>6, <2>1, SameLog DEF Create, CleanInv
  <2>4. NoneAcked => NoneAcked'
    BY <1>6 DEF Create, NoneAcked, Acked
  <2>5. QED
    BY <1>0, <2>2, <2>3, <2>4 DEF CleanInv
<1>7. ASSUME UNCHANGED <<lines, ended, nextSeq>>, NoneAcked => NoneAcked',
             record \/ phase # "idle" \/ (~record' /\ phase' = "idle")
      PROVE  CleanInv'
  <2>1. Kept' = Kept /\ AllGood' /\ ended' = ended /\ nextSeq' = nextSeq
    BY <1>0, <1>7, SameLog DEF CleanInv
  <2>2. QED
    BY <1>0, <1>7, <2>1 DEF CleanInv
<1>8. ASSUME NEW u \in Update, Submit(u) PROVE CleanInv'
  <2>1. UNCHANGED <<lines, ended, nextSeq>> /\ record
    BY <1>8 DEF Submit, disk
  <2>2. NoneAcked => NoneAcked'
    BY <1>0, <1>8 DEF Submit, NoneAcked, Acked, TInv, TypeOK
  <2>3. QED
    BY <1>7, <2>1, <2>2
<1>9. CASE Begin
  <2>1. UNCHANGED <<lines, ended, nextSeq>> /\ record
    BY <1>0, <1>9 DEF Begin, disk, TInv, TypeOK
  <2>2. NoneAcked => NoneAcked'
    BY <1>9 DEF Begin, NoneAcked, Acked
  <2>3. QED
    BY <1>7, <2>1, <2>2
<1>10. CASE Refuse
  <2>1. UNCHANGED <<lines, ended, nextSeq>> /\ record
    BY <1>0, <1>10 DEF Refuse, disk, TInv, TypeOK
  <2>2. NoneAcked => NoneAcked'
    BY <1>0, <1>10, <2>1 DEF Refuse, Settle, NoneAcked, Acked, TInv, TypeOK
  <2>3. QED
    BY <1>7, <2>1, <2>2
<1>11. CASE LoadRefused
  <2>1. UNCHANGED <<lines, ended, nextSeq>> /\ ~record' /\ phase' = "idle"
    BY <1>0, <1>11 DEF LoadRefused, disk, TInv, TypeOK
  <2>2. NoneAcked => NoneAcked'
    BY <1>11 DEF LoadRefused, NoneAcked, Acked
  <2>3. QED
    BY <1>7, <2>1, <2>2
<1>12. CASE UNCHANGED vars
  <2>1. UNCHANGED <<lines, ended, nextSeq, record, phase, outcome>>
    BY <1>12 DEF vars, disk, memory
  <2>2. NoneAcked => NoneAcked'
    BY <2>1 DEF NoneAcked, Acked
  <2>3. Kept' = Kept /\ AllGood'
    BY <2>1, SameLog DEF CleanInv
  <2>4. QED
    BY <1>0, <2>1, <2>2, <2>3 DEF CleanInv
<1>13. QED
  BY <1>1, <1>2, <1>3, <1>4, <1>5, <1>6, <1>8, <1>9, <1>10, <1>11, <1>12 DEF Next

LEMMA CleanInit == Init => CleanInv
<1> SUFFICES ASSUME Init PROVE CleanInv
  OBVIOUS
<1>1. Kept = 0 /\ NoneAcked /\ ~record /\ phase = "idle"
  BY DEF Init, Kept, Torn, NoneAcked, Acked
<1>2. LossInv
  BY LossInit
<1>3. QED
  BY <1>1, <1>2 DEF CleanInv, AllGood

(* On a clean disk a restart reads exactly the live record's state, with any
   number of crashes at any point of a write. *)
THEOREM RunStoreRestartExact ==
  ASSUME CleanDisk PROVE Spec => []RestartSeesCurrent
<1>1. CleanInv => RestartSeesCurrent
  <2> SUFFICES ASSUME CleanInv, record PROVE Loadable /\ Recovered = current /\ Kept = nextSeq
    BY DEF RestartSeesCurrent
  <2>1. AllGood /\ CurrentIsLogged /\ Kept = nextSeq
    BY DEF CleanInv, LossInv
  <2>2. QED
    BY <2>1 DEF AllGood, CurrentIsLogged, Loadable, Recovered
<1>2. QED
  BY <1>1, CleanInit, CleanStep, PTL DEF Spec

(* On a clean disk the run always loads, with every acknowledged update. *)
THEOREM RunStoreAckedReadable ==
  ASSUME CleanDisk PROVE Spec => []AckedReadable
<1>1. CleanInv => AckedReadable
  <2> SUFFICES ASSUME CleanInv, NEW u \in Update, Acked(u)
               PROVE  Loadable /\ Reflects(Recovered, u)
    BY DEF AckedReadable, Acked
  <2>1. Kept > 0 /\ AllGood
    BY DEF CleanInv, NoneAcked
  <2>2. QED
    BY <2>1 DEF CleanInv, LossInv, Loadable, AllGood
<1>2. QED
  BY <1>1, CleanInit, CleanStep, PTL DEF Spec

-----------------------------------------------------------------------------
(* On a clean disk the log only grows, one event at a time, and what the run
   promises its callers follows from that. *)

(* The durable state: what a restart would load *)
Stored == IF Loadable THEN Recovered ELSE <<>>

LEMMA StoredIs ==
  ASSUME CleanInv
  PROVE  /\ Kept \in Nat
         /\ Loadable <=> Kept > 0
         /\ Stored = IF Kept > 0 THEN lines[Kept].state ELSE <<>>
<1>1. Kept \in Nat
  BY DEF CleanInv, LossInv, TInv, TypeOK, Kept, Torn
<1>2. QED
  BY <1>1 DEF CleanInv, AllGood, Loadable, Stored, Recovered

(* The pending event, written whole or in part, is the next event of the log
   or is not in the log. *)
LEMMA WriteGrows ==
  ASSUME CleanInv, phase = "append",
         NEW extent \in WriteExtent, Write(pending, extent)
  PROVE  /\ Kept' \in {Kept, Kept + 1}
         /\ \A i \in 1..Kept : lines'[i] = lines[i]
         /\ Kept' = Kept + 1 => lines'[Kept'] = pending
         /\ extent = "all" => Kept' = Kept + 1
         /\ extent = "nothing" => Kept' = Kept
<1>1. TInv /\ AllGood /\ ended /\ Kept = nextSeq /\ nextSeq \in Nat
  BY DEF CleanInv, LossInv, TInv, TypeOK
<1>2. Aligned
  BY <1>1 DEF Aligned
<1>3. pending \in Line /\ pending.ok /\ pending.seq = nextSeq
  BY <1>1 DEF CleanInv, LossInv, PendingFits, TInv, TypeOK
<1>4. AllGood' /\ (extent = "nothing" => Kept' = Kept)
  BY CleanWrite
<1>5. QED
  BY <1>1, <1>2, <1>3, <1>4, AlignedWrite

(* No step takes an event back or changes one. *)
LEMMA LogGrows ==
  ASSUME CleanDisk, CleanInv, [Next]_vars
  PROVE  /\ Kept \in Nat /\ Kept' \in Nat /\ Kept' >= Kept
         /\ \A i \in 1..Kept : lines'[i] = lines[i]
<1>0. CleanInv' /\ TInv /\ Kept \in Nat /\ Kept' \in Nat
  <2>1. CleanInv' /\ TInv /\ TInv'
    BY CleanStep DEF CleanInv, LossInv
  <2>2. QED
    BY <2>1 DEF Kept, Torn, TInv, TypeOK
<1>1. ASSUME phase = "append", NEW extent \in WriteExtent, Write(pending, extent)
      PROVE  Kept' >= Kept /\ \A i \in 1..Kept : lines'[i] = lines[i]
  BY <1>0, <1>1, WriteGrows
<1>2. ASSUME UNCHANGED <<lines, ended>>
      PROVE  Kept' >= Kept /\ \A i \in 1..Kept : lines'[i] = lines[i]
  <2>1. Kept' = Kept
    BY <1>2 DEF Kept, Torn, Good
  <2>2. QED
    BY <1>0, <1>2, <2>1
<1>3. CASE AppendOk
  BY <1>0, <1>1, <1>3 DEF AppendOk, WriteExtent
<1>4. ASSUME NEW extent \in LiveFault, AppendFails(extent)
      PROVE  Kept' >= Kept /\ \A i \in 1..Kept : lines'[i] = lines[i]
  BY <1>0, <1>1, <1>4, LiveFaultAssumption DEF AppendFails
<1>5. CASE Crash
  BY <1>0, <1>1, <1>2, <1>5 DEF Crash
<1>6. CASE Load
  <2>1. Kept \in 1..Len(lines)
    BY <1>0, <1>6 DEF Load, Loadable, Kept, TInv, TypeOK
  <2>2. Len(lines') = Kept /\ ended' /\ \A i \in 1..Kept : lines'[i] = lines[i]
    BY <1>0, <1>6, <2>1, SubSeqProperties DEF Load, TInv, TypeOK
  <2>3. Kept' = Kept
    BY <2>2 DEF Kept, Torn
  <2>4. QED
    BY <1>0, <2>2, <2>3
<1>7. ASSUME \/ Create \/ (\E u \in Update : Submit(u)) \/ Begin \/ Refuse
             \/ Project \/ LoadRefused \/ UNCHANGED vars
      PROVE  UNCHANGED <<lines, ended>>
  BY <1>7 DEF Create, Submit, Begin, Refuse, Project, LoadRefused, disk, vars
<1>8. QED
  BY <1>0, <1>2, <1>3, <1>4, <1>5, <1>6, <1>7 DEF Next

LEMMA StoredStays ==
  ASSUME CleanInv, CleanInv', Kept' = Kept, \A i \in 1..Kept : lines'[i] = lines[i]
  PROVE  Stored' = Stored
<1>1. Kept \in Nat /\ Stored = IF Kept > 0 THEN lines[Kept].state ELSE <<>>
  BY StoredIs
<1>2. Stored' = IF Kept' > 0 THEN lines'[Kept'].state ELSE <<>>
  <2>1. Kept' \in Nat /\ AllGood'
    BY <1>1 DEF CleanInv
  <2>2. QED
    BY <2>1 DEF AllGood, Loadable, Stored, Recovered
<1>3. QED
  BY <1>1, <1>2

LEMMA StoredUntouched ==
  ASSUME CleanInv, CleanInv', UNCHANGED <<lines, ended>>
  PROVE  Stored' = Stored
  BY DEF Stored, Loadable, Recovered, Kept, Torn, Good

-----------------------------------------------------------------------------
(* state.json against the log *)

ProjectionInv ==
  /\ CleanInv
  /\ projection # <<>> => \E i \in 1..Kept : lines[i].state = projection[1]

LEMMA ProjectionStep ==
  ASSUME CleanDisk PROVE ProjectionInv /\ [Next]_vars => ProjectionInv'
<1> SUFFICES ASSUME ProjectionInv, [Next]_vars PROVE ProjectionInv'
  OBVIOUS
<1>1. CleanInv /\ CleanInv' /\ TInv
  BY CleanStep DEF ProjectionInv, CleanInv, LossInv
<1>2. /\ Kept \in Nat /\ Kept' \in Nat /\ Kept' >= Kept
      /\ \A i \in 1..Kept : lines'[i] = lines[i]
  BY <1>1, LogGrows
<1>3. ASSUME projection' = projection PROVE ProjectionInv'
  BY <1>1, <1>2, <1>3 DEF ProjectionInv
<1>4. ASSUME phase = "project", projection' = <<current>> PROVE ProjectionInv'
  <2>1. Kept = nextSeq /\ nextSeq > 0 /\ lines[nextSeq].state = current
    BY <1>1, <1>4 DEF CleanInv, LossInv, CurrentIsLogged
  <2>2. Kept \in 1..Kept' /\ lines'[Kept].state = current
    BY <1>2, <2>1
  <2>3. projection'[1] = current
    BY <1>4
  <2>4. QED
    BY <1>1, <2>2, <2>3 DEF ProjectionInv
<1>5. CASE Project
  BY <1>3, <1>4, <1>5 DEF Project
<1>6. CASE Crash
  BY <1>3, <1>4, <1>6 DEF Crash
<1>7. ASSUME \/ Create \/ (\E u \in Update : Submit(u)) \/ Begin \/ Refuse \/ AppendOk
             \/ (\E extent \in LiveFault : AppendFails(extent))
             \/ Load \/ LoadRefused \/ UNCHANGED vars
      PROVE  projection' = projection
  BY <1>7 DEF Create, Submit, Begin, Refuse, AppendOk, AppendFails, Load, LoadRefused,
              disk, vars
<1>8. QED
  BY <1>3, <1>5, <1>6, <1>7 DEF Next

(* On a clean disk state.json, whenever it is written or not written and
   wherever the process dies, shows a state that the log has reached. *)
THEOREM RunStoreProjectionBehind ==
  ASSUME CleanDisk PROVE Spec => []ProjectionBehindLog
<1>1. Init => ProjectionInv
  BY CleanInit DEF ProjectionInv, Init
<1>2. ProjectionInv => ProjectionBehindLog
  <2> SUFFICES ASSUME ProjectionInv, projection # <<>>
               PROVE  Loadable /\ \E i \in 1..Kept : lines[i].state = projection[1]
    BY DEF ProjectionBehindLog
  <2>1. PICK i \in 1..Kept : lines[i].state = projection[1]
    BY DEF ProjectionInv
  <2>2. Loadable
    BY <2>1, StoredIs DEF ProjectionInv
  <2>3. QED
    BY <2>1, <2>2
<1>3. QED
  BY <1>1, <1>2, ProjectionStep, PTL DEF Spec

-----------------------------------------------------------------------------
(* Refinement.  The updates in the queue are the ones whose callers wait, each
   once; the durable state reflects no update that is still to be written, and
   none that was refused. *)

Waits(q, u) == \E i \in 1..Len(q) : q[i] = u
Once(q) == \A i, j \in 1..Len(q) : q[i] = q[j] => i = j

QueueIsQueued ==
  Once(queue) /\ \A u \in Update : outcome[u] = "queued" <=> Waits(queue, u)

HeadIsLogged(u) == phase = "project" /\ record /\ u = Head(queue)

StoredIsAnswered ==
  \A u \in Update :
    Reflects(Stored, u) => outcome[u] \in {"acked", "unknown"} \/ HeadIsLogged(u)

CreationIsEmpty == ~record /\ phase = "append" => pending.state = <<>>

RefInv == CleanInv /\ QueueIsQueued /\ StoredIsAnswered /\ CreationIsEmpty

LEMMA QueuePush ==
  ASSUME NEW q \in Seq(Update), NEW u \in Update, Once(q), ~Waits(q, u)
  PROVE  /\ Once(Append(q, u))
         /\ \A v \in Update : Waits(Append(q, u), v) <=> Waits(q, v) \/ v = u
         /\ q # <<>> => Head(Append(q, u)) = Head(q)
<1>1. PICK n \in Nat : n = Len(q)
  BY LenProperties
<1>2. /\ Len(Append(q, u)) = n + 1
      /\ \A i \in 1..n : Append(q, u)[i] = q[i]
      /\ Append(q, u)[n + 1] = u
  BY <1>1, AppendProperties
<1>3. \A i \in 1..n : q[i] # u
  BY <1>1 DEF Waits
<1>4. \A i \in 1..(n + 1) : i \in 1..n \/ i = n + 1
  OBVIOUS
<1>5. Once(Append(q, u))
  BY <1>1, <1>2, <1>3, <1>4 DEF Once
<1>6. \A v \in Update : Waits(Append(q, u), v) <=> Waits(q, v) \/ v = u
  <2> TAKE v \in Update
  <2>1. Waits(Append(q, u), v) <=> \E i \in 1..(n + 1) : Append(q, u)[i] = v
    BY <1>2 DEF Waits
  <2>2. Waits(q, v) <=> \E i \in 1..n : q[i] = v
    BY <1>1 DEF Waits
  <2>3. 1..n \subseteq 1..(n + 1) /\ n + 1 \in 1..(n + 1)
    OBVIOUS
  <2>4. QED
    BY <1>2, <1>4, <2>1, <2>2, <2>3
<1>7. q # <<>> => Head(Append(q, u)) = Head(q)
  <2> SUFFICES ASSUME q # <<>> PROVE Head(Append(q, u)) = Head(q)
    OBVIOUS
  <2>1. n > 0
    BY <1>1, EmptySeq
  <2>2. Head(Append(q, u)) = Append(q, u)[1] /\ Head(q) = q[1]
    OBVIOUS
  <2>3. QED
    BY <1>2, <2>1, <2>2
<1>8. QED
  BY <1>5, <1>6, <1>7

LEMMA QueuePop ==
  ASSUME NEW q \in Seq(Update), q # <<>>, Once(q)
  PROVE  /\ Head(q) \in Update /\ Waits(q, Head(q))
         /\ Once(Tail(q))
         /\ \A v \in Update : Waits(Tail(q), v) <=> Waits(q, v) /\ v # Head(q)
<1>1. PICK n \in Nat : n = Len(q)
  BY LenProperties
<1>2. n > 0 /\ Head(q) = q[1] /\ Head(q) \in Update
  BY <1>1, EmptySeq, HeadTailProperties
<1>3. Len(Tail(q)) = n - 1 /\ \A i \in 1..(n - 1) : Tail(q)[i] = q[i + 1]
  BY <1>1, HeadTailProperties
<1>4. \A i, j \in 1..n : q[i] = q[j] => i = j
  BY <1>1 DEF Once
<1>5. \A i \in 1..(n - 1) : i + 1 \in 1..n
  OBVIOUS
<1>6. Once(Tail(q))
  BY <1>3, <1>4, <1>5 DEF Once
<1>7. Waits(q, Head(q))
  BY <1>1, <1>2 DEF Waits
<1>8. \A v \in Update : Waits(Tail(q), v) <=> Waits(q, v) /\ v # Head(q)
  <2> TAKE v \in Update
  <2>1. Waits(Tail(q), v) <=> \E i \in 1..(n - 1) : q[i + 1] = v
    BY <1>3 DEF Waits
  <2>2. Waits(q, v) <=> \E i \in 1..n : q[i] = v
    BY <1>1 DEF Waits
  <2>3. ASSUME NEW i \in 1..(n - 1), q[i + 1] = v
        PROVE  Waits(q, v) /\ v # Head(q)
    <3>1. i + 1 \in 1..n /\ i + 1 # 1 /\ 1 \in 1..n
      BY <1>2, <1>5
    <3>2. QED
      BY <1>2, <1>4, <2>2, <2>3, <3>1
  <2>4. ASSUME NEW i \in 1..n, q[i] = v, v # Head(q)
        PROVE  \E j \in 1..(n - 1) : q[j + 1] = v
    <3>1. i # 1
      BY <1>2, <2>4
    <3>2. i - 1 \in 1..(n - 1) /\ (i - 1) + 1 = i
      BY <3>1
    <3>3. QED
      BY <2>4, <3>2
  <2>5. QED
    BY <2>1, <2>2, <2>3, <2>4
<1>9. QED
  BY <1>2, <1>6, <1>7, <1>8

LEMMA ReflectsOnlyAppended ==
  ASSUME NEW s \in Seq(Update), NEW u \in Update,
         NEW v \in Update, Reflects(Append(s, u), v)
  PROVE  Reflects(s, v) \/ v = u
<1>1. PICK n \in Nat : n = Len(s)
  BY LenProperties
<1>2. DOMAIN s = 1..n /\ DOMAIN Append(s, u) = 1..(n + 1)
      /\ (\A i \in 1..n : Append(s, u)[i] = s[i]) /\ Append(s, u)[n + 1] = u
  BY <1>1, AppendProperties, LenProperties
<1>3. PICK i \in 1..(n + 1) : Append(s, u)[i] = v
  BY <1>2 DEF Reflects
<1>4. QED
  BY <1>2, <1>3 DEF Reflects

(* An answer takes the head off the queue.  It is "acked" exactly when the
   durable state reflects the update. *)
LEMMA AnswerStep ==
  ASSUME RefInv, CleanInv', Stored' = Stored, record, queue # <<>>, record',
         NEW answer \in {"acked", "rejected"}, Settle(answer),
         answer = "acked" <=> Reflects(Stored, Head(queue)),
         phase = "project" => answer = "acked"
  PROVE  Durable!DurableAnswer(answer) /\ RefInv'
<1>1. queue \in Seq(Update) /\ DOMAIN outcome = Update /\ Once(queue)
  BY DEF RefInv, CleanInv, LossInv, TInv, TypeOK, QueueIsQueued
<1>2. /\ Head(queue) \in Update /\ Waits(queue, Head(queue)) /\ Once(Tail(queue))
      /\ \A v \in Update : Waits(Tail(queue), v) <=> Waits(queue, v) /\ v # Head(queue)
  BY <1>1, QueuePop
<1>3. queue' = Tail(queue) /\ phase' = "idle"
      /\ outcome' = [outcome EXCEPT ![Head(queue)] = answer]
  BY DEF Settle
<1>4. outcome'[Head(queue)] = answer
      /\ \A v \in Update : v # Head(queue) => outcome'[v] = outcome[v]
  BY <1>1, <1>2, <1>3
<1>5. QueueIsQueued'
  BY <1>2, <1>3, <1>4 DEF RefInv, QueueIsQueued
<1>6. StoredIsAnswered'
  <2> SUFFICES ASSUME NEW u \in Update, Reflects(Stored, u)
               PROVE  outcome'[u] \in {"acked", "unknown"}
    BY DEF StoredIsAnswered
  <2>1. CASE u = Head(queue)
    BY <1>4, <2>1
  <2>2. CASE u # Head(queue)
    BY <1>4, <2>2 DEF RefInv, StoredIsAnswered, HeadIsLogged
  <2>3. QED
    BY <2>1, <2>2
<1>7. CreationIsEmpty'
  BY <1>3 DEF CreationIsEmpty
<1>8. Durable!DurableAnswer(answer)
  BY <1>3 DEF Durable!DurableAnswer, Durable!Reflects, Reflects, Stored
<1>9. QED
  BY <1>5, <1>6, <1>7, <1>8 DEF RefInv

(* A step that touches neither the durable state nor a caller is a stutter of
   the promise. *)
LEMMA QuietStep ==
  ASSUME RefInv, CleanInv', Stored' = Stored, UNCHANGED <<queue, outcome>>,
         \A u \in Update : HeadIsLogged(u) => HeadIsLogged(u)',
         CreationIsEmpty'
  PROVE  UNCHANGED Durable!dvars /\ RefInv'
<1>1. QueueIsQueued'
  BY DEF RefInv, QueueIsQueued
<1>2. StoredIsAnswered'
  BY DEF RefInv, StoredIsAnswered
<1>3. QED
  BY <1>1, <1>2 DEF RefInv, Durable!dvars, Stored

LEMMA PromiseStep ==
  ASSUME CleanDisk
  PROVE  RefInv /\ [Next]_vars => RefInv' /\ [Durable!DurableNext]_(Durable!dvars)
<1> SUFFICES ASSUME RefInv, [Next]_vars
             PROVE  RefInv' /\ [Durable!DurableNext]_(Durable!dvars)
  OBVIOUS
<1>0. CleanInv /\ CleanInv' /\ LossInv /\ TInv /\ TypeOK
  BY CleanStep DEF RefInv, CleanInv, LossInv, TInv
<1>1. queue \in Seq(Update) /\ DOMAIN outcome = Update /\ Once(queue)
  BY <1>0 DEF TypeOK, RefInv, QueueIsQueued
<1>2. ASSUME queue # <<>>
      PROVE  /\ Head(queue) \in Update /\ outcome[Head(queue)] = "queued"
             /\ Reflects(Stored, Head(queue)) => phase = "project" /\ record
  BY <1>1, <1>2, QueuePop DEF RefInv, QueueIsQueued, StoredIsAnswered, HeadIsLogged
<1>3. CASE Create
  <2>1. Stored' = Stored /\ UNCHANGED <<queue, outcome>>
    BY <1>0, <1>3, StoredUntouched DEF Create
  <2>2. CreationIsEmpty'
    BY <1>3 DEF Create, CreationIsEmpty, Event
  <2>3. \A u \in Update : ~HeadIsLogged(u)
    BY <1>3 DEF Create, HeadIsLogged
  <2>4. QED
    BY <1>0, <2>1, <2>2, <2>3, QuietStep
<1>4. ASSUME NEW u \in Update, Submit(u)
      PROVE  RefInv' /\ Durable!DurableSubmit(u)
  <2>1. /\ outcome[u] = "new" /\ queue' = Append(queue, u)
        /\ outcome' = [outcome EXCEPT ![u] = "queued"]
        /\ UNCHANGED <<record, phase, pending>>
        /\ Stored' = Stored
    BY <1>0, <1>4, StoredUntouched DEF Submit, disk
  <2>2. outcome'[u] = "queued" /\ \A v \in Update : v # u => outcome'[v] = outcome[v]
    BY <1>1, <2>1
  <2>3. ~Waits(queue, u)
    BY <2>1 DEF RefInv, QueueIsQueued
  <2>4. /\ Once(queue')
        /\ \A v \in Update : Waits(queue', v) <=> Waits(queue, v) \/ v = u
        /\ queue # <<>> => Head(queue') = Head(queue)
    BY <1>1, <2>1, <2>3, QueuePush
  <2>5. QueueIsQueued'
    BY <2>2, <2>4 DEF RefInv, QueueIsQueued
  <2>6. ASSUME NEW v \in Update, Reflects(Stored, v)
        PROVE  outcome'[v] \in {"acked", "unknown"} \/ HeadIsLogged(v)'
    <3>1. outcome[v] \in {"acked", "unknown"} \/ HeadIsLogged(v)
      BY <2>6 DEF RefInv, StoredIsAnswered
    <3>2. CASE HeadIsLogged(v)
      <4>1. queue # <<>>
        BY <1>0, <3>2 DEF TInv, HeadIsLogged
      <4>2. QED
        BY <2>1, <2>4, <3>2, <4>1 DEF HeadIsLogged
    <3>3. CASE outcome[v] \in {"acked", "unknown"}
      BY <2>1, <2>2, <3>3
    <3>4. QED
      BY <3>1, <3>2, <3>3
  <2>7. StoredIsAnswered'
    BY <2>1, <2>6 DEF StoredIsAnswered
  <2>8. CreationIsEmpty'
    BY <2>1 DEF RefInv, CreationIsEmpty
  <2>9. Durable!DurableSubmit(u)
    BY <2>1 DEF Durable!DurableSubmit, Stored
  <2>10. QED
    BY <1>0, <2>5, <2>7, <2>8, <2>9 DEF RefInv
<1>5. CASE Begin
  <2>1. Stored' = Stored /\ UNCHANGED <<queue, outcome>> /\ record
    BY <1>0, <1>5, StoredUntouched DEF Begin, disk, TypeOK
  <2>2. CreationIsEmpty'
    BY <1>5, <2>1 DEF Begin, CreationIsEmpty
  <2>3. \A u \in Update : ~HeadIsLogged(u)
    BY <1>5 DEF Begin, HeadIsLogged
  <2>4. QED
    BY <1>0, <2>1, <2>2, <2>3, QuietStep
<1>6. CASE Refuse
  <2>1. queue # <<>> /\ phase = "idle" /\ Settle("rejected") /\ record /\ record'
        /\ Stored' = Stored
    BY <1>0, <1>6, StoredUntouched DEF Refuse, disk, TypeOK
  <2>2. ~Reflects(Stored, Head(queue))
    BY <1>2, <2>1
  <2>3. RefInv' /\ Durable!DurableAnswer("rejected")
    BY <1>0, <2>1, <2>2, AnswerStep
  <2>4. QED
    BY <2>3 DEF Durable!DurableNext
<1>7. CASE AppendOk
  <2>1. /\ phase = "append" /\ phase' = "project"
        /\ UNCHANGED <<queue, outcome, record>>
        /\ Write(pending, "all")
    BY <1>7 DEF AppendOk
  <2>2. Kept' = Kept + 1 /\ lines'[Kept'] = pending /\ Kept \in Nat
    BY <1>0, <2>1, WriteGrows, StoredIs DEF WriteExtent
  <2>3. Stored' = pending.state
    BY <1>0, <2>2 DEF Stored, Loadable, Recovered, CleanInv, AllGood
  <2>4. CASE record
    <3>1. queue # <<>> /\ pending.state = Append(current, Head(queue))
      BY <1>0, <2>1, <2>4 DEF TInv, LossInv, PendingFits
    <3>2. Stored = current
      BY <1>0, <2>4, StoredIs DEF CleanInv, LossInv, CurrentIsLogged
    <3>3. Stored' = Append(Stored, Head(queue)) /\ Stored \in Seq(Update)
      BY <1>0, <2>3, <3>1, <3>2 DEF TypeOK, State
    <3>4. Durable!DurableCommit
      BY <1>2, <2>1, <3>1, <3>3
         DEF Durable!DurableCommit, Durable!Reflects, Reflects, Stored
    <3>5. QueueIsQueued'
      BY <2>1 DEF RefInv, QueueIsQueued
    <3>6. ASSUME NEW v \in Update, Reflects(Stored', v)
          PROVE  outcome'[v] \in {"acked", "unknown"} \/ HeadIsLogged(v)'
      <4>1. Reflects(Stored, v) \/ v = Head(queue)
        BY <1>2, <3>1, <3>3, <3>6, ReflectsOnlyAppended
      <4>2. CASE v = Head(queue)
        BY <2>1, <2>4, <4>2 DEF HeadIsLogged
      <4>3. CASE Reflects(Stored, v)
        BY <2>1, <4>3 DEF RefInv, StoredIsAnswered, HeadIsLogged
      <4>4. QED
        BY <4>1, <4>2, <4>3
    <3>7. StoredIsAnswered'
      BY <3>6 DEF StoredIsAnswered
    <3>8. CreationIsEmpty'
      BY <2>1 DEF CreationIsEmpty
    <3>9. QED
      BY <1>0, <3>4, <3>5, <3>7, <3>8 DEF RefInv, Durable!DurableNext
  <2>5. CASE ~record
    <3>1. Kept = nextSeq /\ nextSeq = 0
      BY <1>0, <2>1, <2>5 DEF CleanInv, LossInv
    <3>2. Stored' = Stored
      BY <1>0, <2>1, <2>3, <2>5, <3>1, StoredIs DEF RefInv, CreationIsEmpty
    <3>3. (\A u \in Update : ~HeadIsLogged(u)) /\ CreationIsEmpty'
      BY <2>1 DEF HeadIsLogged, CreationIsEmpty
    <3>4. QED
      BY <1>0, <2>1, <3>2, <3>3, QuietStep
  <2>6. QED
    BY <1>0, <2>4, <2>5 DEF TypeOK
<1>8. ASSUME NEW extent \in LiveFault, AppendFails(extent)
      PROVE  RefInv' /\ [Durable!DurableNext]_(Durable!dvars)
  <2>1. /\ extent = "nothing" /\ phase = "append" /\ Write(pending, extent)
        /\ Settle("rejected") /\ UNCHANGED <<record, pending>>
    BY <1>8 DEF AppendFails, CleanDisk
  <2>2. UNCHANGED <<lines, ended>>
    BY <2>1 DEF Write
  <2>3. Stored' = Stored
    BY <1>0, <2>2, StoredUntouched
  <2>4. CASE record
    <3>1. queue # <<>>
      BY <1>0, <2>1, <2>4 DEF TInv
    <3>2. ~Reflects(Stored, Head(queue))
      BY <1>2, <2>1, <3>1
    <3>3. RefInv' /\ Durable!DurableAnswer("rejected")
      BY <1>0, <2>1, <2>3, <2>4, <3>1, <3>2, AnswerStep
    <3>4. QED
      BY <3>3 DEF Durable!DurableNext
  <2>5. CASE ~record
    <3>1. UNCHANGED <<queue, outcome>> /\ phase' = "idle"
      BY <2>1, <2>5 DEF Settle
    <3>2. (\A u \in Update : ~HeadIsLogged(u)) /\ CreationIsEmpty'
      BY <2>1, <3>1 DEF HeadIsLogged, CreationIsEmpty
    <3>3. QED
      BY <1>0, <2>3, <3>1, <3>2, QuietStep
  <2>6. QED
    BY <1>0, <2>4, <2>5 DEF TypeOK
<1>9. CASE Project
  <2>1. phase = "project" /\ record' /\ Settle("acked") /\ Stored' = Stored
    BY <1>0, <1>9, StoredUntouched DEF Project
  <2>2. CASE record
    <3>1. queue # <<>>
      BY <1>0, <2>1, <2>2 DEF TInv
    <3>2. Stored = current /\ Reflects(current, Head(queue))
      BY <1>0, <2>1, <2>2, StoredIs DEF CleanInv, LossInv, CurrentIsLogged
    <3>3. RefInv' /\ Durable!DurableAnswer("acked")
      BY <1>0, <2>1, <2>2, <3>1, <3>2, AnswerStep
    <3>4. QED
      BY <3>3 DEF Durable!DurableNext
  <2>3. CASE ~record
    <3>1. UNCHANGED <<queue, outcome>> /\ phase' = "idle"
      BY <2>1, <2>3 DEF Settle
    <3>2. (\A u \in Update : ~HeadIsLogged(u)) /\ CreationIsEmpty'
      BY <2>1, <2>3, <3>1 DEF HeadIsLogged, CreationIsEmpty
    <3>3. QED
      BY <1>0, <2>1, <3>1, <3>2, QuietStep
  <2>4. QED
    BY <1>0, <2>2, <2>3 DEF TypeOK
<1>10. CASE Crash
  <2>1. /\ queue' = <<>> /\ record' = FALSE /\ phase' = "idle"
        /\ outcome' = [u \in Update |-> IF outcome[u] = "queued" THEN "unknown" ELSE outcome[u]]
    BY <1>10 DEF Crash, Forget
  <2>2. \/ Stored' = Stored
        \/ queue # <<>> /\ Stored' = Append(Stored, Head(queue)) /\ Stored \in Seq(Update)
    <3>1. CASE phase # "append"
      <4>1. UNCHANGED <<lines, ended>>
        BY <1>10, <3>1 DEF Crash
      <4>2. QED
        BY <1>0, <4>1, StoredUntouched
    <3>2. CASE phase = "append"
      <4>1. PICK extent \in WriteExtent : Write(pending, extent)
        BY <1>10, <3>2 DEF Crash
      <4>2. /\ Kept' \in {Kept, Kept + 1}
            /\ \A i \in 1..Kept : lines'[i] = lines[i]
            /\ Kept' = Kept + 1 => lines'[Kept'] = pending
            /\ Kept \in Nat
        BY <1>0, <3>2, <4>1, WriteGrows, StoredIs
      <4>3. CASE Kept' = Kept
        BY <1>0, <4>2, <4>3, StoredStays
      <4>4. CASE Kept' = Kept + 1
        <5>1. Stored' = pending.state
          BY <1>0, <4>2, <4>4 DEF Stored, Loadable, Recovered, CleanInv, AllGood
        <5>2. CASE record
          <6>1. queue # <<>> /\ pending.state = Append(current, Head(queue))
            BY <1>0, <3>2, <5>2 DEF TInv, LossInv, PendingFits
          <6>2. Stored = current
            BY <1>0, <5>2, StoredIs DEF CleanInv, LossInv, CurrentIsLogged
          <6>3. QED
            BY <1>0, <5>1, <6>1, <6>2 DEF TypeOK, State
        <5>3. CASE ~record
          <6>1. Kept = nextSeq /\ nextSeq = 0
            BY <1>0, <3>2, <5>3 DEF CleanInv, LossInv
          <6>2. QED
            BY <1>0, <3>2, <5>1, <5>3, <6>1, StoredIs DEF RefInv, CreationIsEmpty
        <5>4. QED
          BY <1>0, <5>2, <5>3 DEF TypeOK
      <4>5. QED
        BY <4>2, <4>3, <4>4
    <3>3. QED
      BY <3>1, <3>2
  <2>3. Durable!DurableCrash
    BY <2>1, <2>2 DEF Durable!DurableCrash, Stored
  <2>4. QueueIsQueued'
    <3>1. Once(<<>>) /\ \A u \in Update : ~Waits(<<>>, u)
      BY EmptySeq DEF Once, Waits
    <3>2. \A u \in Update : outcome'[u] # "queued"
      BY <2>1
    <3>3. QED
      BY <2>1, <3>1, <3>2 DEF QueueIsQueued
  <2>5. ASSUME NEW v \in Update, Reflects(Stored', v)
        PROVE  outcome'[v] \in {"acked", "unknown"}
    <3>1. Reflects(Stored, v) \/ (queue # <<>> /\ v = Head(queue))
      BY <1>2, <2>2, <2>5, ReflectsOnlyAppended
    <3>2. outcome[v] \in {"queued", "acked", "unknown"}
      <4>1. CASE queue # <<>> /\ v = Head(queue)
        BY <1>2, <4>1
      <4>2. CASE Reflects(Stored, v)
        <5>1. outcome[v] \in {"acked", "unknown"} \/ (queue # <<>> /\ v = Head(queue))
          BY <1>0, <4>2 DEF RefInv, StoredIsAnswered, HeadIsLogged, TInv
        <5>2. QED
          BY <1>2, <5>1
      <4>3. QED
        BY <3>1, <4>1, <4>2
    <3>3. QED
      BY <2>1, <3>2
  <2>6. StoredIsAnswered'
    BY <2>5 DEF StoredIsAnswered
  <2>7. CreationIsEmpty'
    BY <2>1 DEF CreationIsEmpty
  <2>8. QED
    BY <1>0, <2>3, <2>4, <2>6, <2>7 DEF RefInv, Durable!DurableNext
<1>11. CASE Load
  <2>1. UNCHANGED <<queue, outcome, phase>> /\ phase = "idle"
    BY <1>0, <1>11 DEF Load, TypeOK
  <2>2. Kept' = Kept /\ \A i \in 1..Kept : lines'[i] = lines[i]
    <3>1. Kept \in 1..Len(lines)
      BY <1>0, <1>11 DEF Load, Loadable, Kept, TInv, TypeOK
    <3>2. Len(lines') = Kept /\ ended' /\ \A i \in 1..Kept : lines'[i] = lines[i]
      BY <1>0, <1>11, <3>1, SubSeqProperties DEF Load, TInv, TypeOK
    <3>3. QED
      BY <3>2 DEF Kept, Torn
  <2>3. Stored' = Stored
    BY <1>0, <2>2, StoredStays
  <2>4. (\A u \in Update : ~HeadIsLogged(u)) /\ CreationIsEmpty'
    BY <2>1 DEF HeadIsLogged, CreationIsEmpty
  <2>5. QED
    BY <1>0, <2>1, <2>3, <2>4, QuietStep
<1>12. CASE LoadRefused
  <2>1. UNCHANGED <<queue, outcome, phase>> /\ phase = "idle" /\ Stored' = Stored
    BY <1>0, <1>12, StoredUntouched DEF LoadRefused, disk, TypeOK
  <2>2. (\A u \in Update : ~HeadIsLogged(u)) /\ CreationIsEmpty'
    BY <2>1 DEF HeadIsLogged, CreationIsEmpty
  <2>3. QED
    BY <1>0, <2>1, <2>2, QuietStep
<1>13. CASE UNCHANGED vars
  <2>1. UNCHANGED <<queue, outcome, phase, record, pending>> /\ Stored' = Stored
    BY <1>0, <1>13, StoredUntouched DEF vars, disk, memory
  <2>2. (\A u \in Update : HeadIsLogged(u)' <=> HeadIsLogged(u)) /\ CreationIsEmpty'
    BY <2>1 DEF RefInv, HeadIsLogged, CreationIsEmpty
  <2>3. QED
    BY <1>0, <2>1, <2>2, QuietStep
<1>14. ASSUME NEW u \in Update, Submit(u)
       PROVE  RefInv' /\ [Durable!DurableNext]_(Durable!dvars)
  BY <1>4, <1>14 DEF Durable!DurableNext
<1>15. QED
  BY <1>3, <1>5, <1>6, <1>7, <1>8, <1>9, <1>10, <1>11, <1>12, <1>13, <1>14 DEF Next

LEMMA PromiseInit == Init => RefInv /\ Durable!DurableInit
<1> SUFFICES ASSUME Init PROVE RefInv /\ Durable!DurableInit
  OBVIOUS
<1>1. CleanInv
  BY CleanInit
<1>2. queue = <<>> /\ outcome = [u \in Update |-> "new"] /\ phase = "idle" /\ lines = <<>>
  BY DEF Init
<1>3. Stored = <<>>
  BY <1>2 DEF Stored, Loadable, Kept, Torn
<1>4. QueueIsQueued
  BY <1>2, EmptySeq DEF QueueIsQueued, Once, Waits
<1>5. StoredIsAnswered
  BY <1>3 DEF StoredIsAnswered, Reflects
<1>6. CreationIsEmpty
  BY <1>2 DEF CreationIsEmpty
<1>7. Durable!DurableInit
  BY <1>2, <1>3 DEF Durable!DurableInit, Stored
<1>8. QED
  BY <1>1, <1>4, <1>5, <1>6, <1>7 DEF RefInv

(* On a clean disk the run store keeps the promise of DurableRun: whatever the
   order of writes, answers and crashes, its log is one durable state that
   updates extend one at a time and in the order they were submitted, and an
   update is acknowledged exactly when it is in that state. *)
THEOREM RunStoreImplements ==
  ASSUME CleanDisk PROVE Spec => ImplementsDurableRun
<1>1. RefInv /\ [Next]_vars => RefInv'
  BY PromiseStep
<1>2. RefInv /\ [Next]_vars => [Durable!DurableNext]_(Durable!dvars)
  BY PromiseStep
<1>3. Init => RefInv
  BY PromiseInit
<1>4. Init => Durable!DurableInit
  BY PromiseInit
<1>5. QED
  BY <1>1, <1>2, <1>3, <1>4, PTL DEF Spec, ImplementsDurableRun, Durable!DurableSpec
=============================================================================
