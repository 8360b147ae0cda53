-------------------------- MODULE P2PmsgTimer_proofs --------------------------
(***************************************************************************)
(* Theorems about P2PmsgTimer, for any number of timers, any counter width *)
(* and any delays.  UniqueIds is inductive once the state is typed: an id  *)
(* enters the list only through MakeTimerID, which has looked through the  *)
(* list for it, and every other step keeps or removes entries.  On it rest *)
(* OwnInv (whom a timer belongs to), and beside it DriftInv (how far the   *)
(* clock of whole seconds runs ahead), each inductive in turn.             *)
(***************************************************************************)
EXTENDS P2PmsgTimer, SequenceTheorems, TLAPS

-------------------------------------------------------------------------------
(* What a CList's steps, InsertAt and RemoveAt, do to each entry.          *)

LEMMA InsertEntries ==
    ASSUME NEW S, NEW s \in Seq(S), NEW p \in 1 .. Len(s) + 1, NEW e \in S
    PROVE  /\ InsertAt(s, p, e) \in Seq(S)
           /\ Len(InsertAt(s, p, e)) = Len(s) + 1
           /\ \A i \in 1 .. Len(s) + 1 :
                 InsertAt(s, p, e)[i] = IF i < p THEN s[i] ELSE IF i = p THEN e ELSE s[i - 1]
<1> DEFINE front == SubSeq(s, 1, p - 1)
           back  == SubSeq(s, p, Len(s))
<1>1. /\ front \in Seq(S) /\ Len(front) = p - 1
      /\ \A i \in 1 .. p - 1 : front[i] = s[i]
  <2>1. \A i \in 1 .. p - 1 : s[i] \in S
    BY ElementOfSeq, LenProperties
  <2> QED BY <2>1, SubSeqProperties
<1>2. /\ back \in Seq(S) /\ Len(back) = Len(s) - p + 1
      /\ \A i \in 1 .. Len(s) - p + 1 : back[i] = s[p + i - 1]
  <2>1. \A i \in p .. Len(s) : s[i] \in S
    BY ElementOfSeq, LenProperties
  <2> QED BY <2>1, SubSeqProperties
<1> DEFINE most == Append(front, e)
<1> HIDE DEF front, back
<1>3. most = front \o <<e>>
  BY <1>1, AppendIsConcat
<1>4. /\ most \in Seq(S) /\ Len(most) = p
      /\ \A i \in 1 .. p : most[i] = IF i < p THEN s[i] ELSE e
  BY <1>1, AppendProperties
<1> HIDE DEF most
<1>5. /\ most \o back \in Seq(S)
      /\ Len(most \o back) = Len(s) + 1
      /\ \A i \in 1 .. Len(s) + 1 :
            (most \o back)[i] = IF i <= p THEN most[i] ELSE back[i - p]
  <2>1. /\ most \o back \in Seq(S)
        /\ Len(most \o back) = Len(most) + Len(back)
        /\ \A i \in 1 .. Len(most) + Len(back) :
              (most \o back)[i] = IF i <= Len(most) THEN most[i] ELSE back[i - Len(most)]
    BY <1>2, <1>4, ConcatProperties
  <2>2. Len(most) = p /\ Len(most) + Len(back) = Len(s) + 1
    BY <1>2, <1>4, LenProperties
  <2> QED BY <2>1, <2>2
<1>6. InsertAt(s, p, e) = most \o back
  BY <1>3 DEF InsertAt, front, back
<1> QED BY <1>2, <1>4, <1>5, <1>6

LEMMA RemoveEntries ==
    ASSUME NEW S, NEW s \in Seq(S), NEW p \in 1 .. Len(s)
    PROVE  /\ RemoveAt(s, p) \in Seq(S)
           /\ Len(RemoveAt(s, p)) = Len(s) - 1
           /\ \A i \in 1 .. Len(s) - 1 :
                 RemoveAt(s, p)[i] = IF i < p THEN s[i] ELSE s[i + 1]
<1> DEFINE front == SubSeq(s, 1, p - 1)
           back  == SubSeq(s, p + 1, Len(s))
<1>1. /\ front \in Seq(S) /\ Len(front) = p - 1
      /\ \A i \in 1 .. p - 1 : front[i] = s[i]
  <2>1. \A i \in 1 .. p - 1 : s[i] \in S
    BY ElementOfSeq, LenProperties
  <2> QED BY <2>1, SubSeqProperties
<1>2. /\ back \in Seq(S) /\ Len(back) = Len(s) - p
      /\ \A i \in 1 .. Len(s) - p : back[i] = s[p + i]
  <2>1. \A i \in p + 1 .. Len(s) : s[i] \in S
    BY ElementOfSeq, LenProperties
  <2> QED BY <2>1, SubSeqProperties
<1> HIDE DEF front, back
<1>3. /\ front \o back \in Seq(S)
      /\ Len(front \o back) = Len(s) - 1
      /\ \A i \in 1 .. Len(s) - 1 :
            (front \o back)[i] = IF i < p THEN front[i] ELSE back[i - (p - 1)]
  <2>1. /\ front \o back \in Seq(S)
        /\ Len(front \o back) = Len(front) + Len(back)
        /\ \A i \in 1 .. Len(front) + Len(back) :
              (front \o back)[i] = IF i <= Len(front) THEN front[i] ELSE back[i - Len(front)]
    BY <1>1, <1>2, ConcatProperties
  <2>2. Len(front) = p - 1 /\ Len(front) + Len(back) = Len(s) - 1 /\ Len(s) \in Nat
    BY <1>1, <1>2, LenProperties
  <2>3. \A i \in 1 .. Len(s) - 1 : i <= Len(front) <=> i < p
    BY <2>2
  <2> QED BY <2>1, <2>2, <2>3
<1>4. RemoveAt(s, p) = front \o back
  BY DEF RemoveAt, front, back
<1>5. ASSUME NEW i \in 1 .. Len(s) - 1
      PROVE  (front \o back)[i] = IF i < p THEN s[i] ELSE s[i + 1]
  <2>1. CASE i < p
    BY <1>1, <1>3, <2>1
  <2>2. CASE i >= p
    <3>1. PICK j \in 1 .. Len(s) - p : j = i - (p - 1)
      BY <2>2, LenProperties
    <3>2. p + j = i + 1
      BY <3>1, LenProperties
    <3>3. back[j] = s[i + 1]
      BY <1>2, <3>2
    <3>4. (front \o back)[i] = back[j]
      BY <1>3, <2>2, <3>1
    <3> QED BY <2>2, <3>3, <3>4
  <2>3. Len(s) \in Nat
    BY LenProperties
  <2>4. i < p \/ i >= p
    BY <2>3
  <2> QED BY <2>1, <2>2, <2>4, Zenon
<1> QED BY <1>3, <1>4, <1>5

-----------------------------------------------------------------------------
\* The ids MakeTimerID forms.
LEMMA IdsTyped ==
    ASSUME counter \in 0 .. CounterMod - 1, NEW k \in 0 .. CounterMod - 1
    PROVE  IdAt(k) \in Ids /\ (counter + k + 1) % CounterMod \in 0 .. CounterMod - 1
<1>1. ASSUME NEW n \in Nat PROVE n % CounterMod \in 0 .. CounterMod - 1
  BY IdsAssumption
<1>2. /\ (counter + k) % CounterMod \in 0 .. CounterMod - 1
      /\ (counter + k + 1) % CounterMod \in 0 .. CounterMod - 1
  BY <1>1, IdsAssumption
<1>3. ASSUME NEW base \in Int, NEW c \in 0 .. CounterMod - 1
      PROVE  base + c \in base .. base + CounterMod - 1
  BY IdsAssumption
<1>4. ThreadId * IdSpan \in Int
  BY IdsAssumption
<1> QED BY <1>2, <1>3, <1>4 DEF IdAt, Ids

LEMMA SetTimerTyped ==
    ASSUME TypeOK, NEW o \in Owners, NEW delay \in Nat, SetTimer(o, delay)
    PROVE  /\ pit' \in Seq(Timer) /\ counter' \in 0 .. CounterMod - 1
           /\ slot' \in [Owners -> Ids \cup {0}]
<1>1. PICK k \in 0 .. CounterMod - 1, p \in 1 .. Len(pit) + 1 :
        /\ counter' = (counter + k + 1) % CounterMod
        /\ pit' = InsertAt(pit, p, [id |-> IdAt(k), own |-> o, rel |-> delay, left |-> delay])
        /\ slot' = [slot EXCEPT ![o] = IdAt(k)]
  BY DEF SetTimer
<1>2. IdAt(k) \in Ids /\ counter' \in 0 .. CounterMod - 1
  BY <1>1, IdsTyped DEF TypeOK
<1>3. [id |-> IdAt(k), own |-> o, rel |-> delay, left |-> delay] \in Timer
  BY <1>2 DEF Timer
<1>4. pit' \in Seq(Timer)
  BY <1>1, <1>3, InsertEntries DEF TypeOK
<1> QED BY <1>1, <1>2, <1>4 DEF TypeOK

LEMMA TypeStep == TypeOK /\ [Next]_vars => TypeOK'
<1> SUFFICES ASSUME TypeOK, [Next]_vars PROVE TypeOK'
  OBVIOUS
<1> USE DEF TypeOK, States, Owners
<1>1. ASSUME NEW o \in Logins, ArmLogin(o) PROVE TypeOK'
  BY <1>1, SetTimerTyped, TimesAssumption DEF ArmLogin
<1>2. ASSUME NEW o \in Polls, HoldRecv(o) PROVE TypeOK'
  BY <1>2, SetTimerTyped, TimesAssumption DEF HoldRecv
<1>3. ASSUME NEW o \in Polls, Reopen(o) PROVE TypeOK'
  BY <1>3 DEF Reopen
<1>4. ASSUME NEW o \in Owners, ArmRefused(o) PROVE TypeOK'
  BY <1>4 DEF ArmRefused
<1>5. ASSUME NEW o \in Owners, Cancel(o) PROVE TypeOK'
  <2>1. pit' \in Seq(Timer)
    BY <1>5, RemoveEntries DEF Cancel
  <2> QED BY <1>5, <2>1 DEF Cancel, Settled
<1>6. ASSUME NEW o \in Owners, CancelMisses(o) \/ CancelThrows(o) PROVE TypeOK'
  BY <1>6 DEF CancelMisses, CancelThrows, Settled
<1>7. CASE GetTimer
  BY <1>7, HeadTailProperties DEF GetTimer
<1>8. CASE LoginTimedOut \/ PollResumes
  BY <1>8 DEF LoginTimedOut, PollResumes, Timer
<1>9. CASE PollAgain
  <2>1. firing.own \in Owners
    BY <1>9 DEF PollAgain
  <2> QED BY <1>9, <2>1, SetTimerTyped, TimesAssumption DEF PollAgain
<1>10. CASE Tick
  <2>1. phase' \in 0 .. Second - 1
    <3>1. ASSUME NEW n \in Nat PROVE n % Second \in 0 .. Second - 1
      BY TimesAssumption
    <3>2. phase \in Nat
      BY TimesAssumption
    <3>3. phase' = (phase + 1) % Second
      BY <1>10, Zenon DEF Tick
    <3> QED BY <3>1, <3>2, <3>3
  <2>2. \A e \in Timer, l, r \in Nat : [e EXCEPT !.left = l, !.rel = r] \in Timer
    BY DEF Timer
  <2>3. \A n, m \in Nat : Less(n, m) \in Nat
    BY DEF Less
  <2>4. \A i \in DOMAIN pit : pit[i] \in Timer /\ pit[i].left \in Nat /\ pit[i].rel \in Nat
    <3>1. \A e \in Timer : e.left \in Nat /\ e.rel \in Nat
      BY DEF Timer
    <3>2. pit \in Seq(Timer) /\ DOMAIN pit = 1 .. Len(pit)
      BY LenProperties
    <3>3. \A i \in DOMAIN pit : pit[i] \in Timer
      BY <3>2, ElementOfSeq
    <3> QED BY <3>1, <3>3
  <2>5. pit' \in [DOMAIN pit -> Timer]
    BY <1>10, <2>2, <2>3, <2>4, TimesAssumption DEF Tick
  <2>6. pit' \in Seq(Timer)
    BY <2>5, IsASeq, LenProperties
  <2> QED BY <1>10, <2>1, <2>6 DEF Tick
<1>11. CASE UNCHANGED vars
  BY <1>11 DEF vars
<1> QED
  BY <1>1, <1>2, <1>3, <1>4, <1>5, <1>6, <1>7, <1>8, <1>9, <1>10, <1>11
  DEF Next, Callback

\* The state keeps its types: timers with an id of the pump's range, an owner
\* and two times, a counter of its width.
THEOREM TypeCorrect == Spec => []TypeOK
<1>1. Init => TypeOK
  BY EmptySeq, IdsAssumption, TimesAssumption DEF Init, TypeOK, States
<1> QED BY <1>1, TypeStep, PTL DEF Spec

-----------------------------------------------------------------------------
(* A tick changes the two times of every entry and nothing else.           *)

LEMMA TickEntries ==
    ASSUME TypeOK, Tick
    PROVE  /\ Len(pit') = Len(pit)
           /\ \A i \in 1 .. Len(pit) :
                /\ pit'[i].id = pit[i].id /\ pit'[i].own = pit[i].own
                /\ pit'[i].left = Less(pit[i].left, 1)
                /\ pit'[i].rel = IF phase' = 0 THEN Less(pit[i].rel, Second) ELSE pit[i].rel
<1>0. pit \in Seq(Timer) /\ DOMAIN pit = 1 .. Len(pit) /\ Len(pit) \in Nat
  BY LenProperties DEF TypeOK
<1>1. pit' = [i \in DOMAIN pit |->
                [pit[i] EXCEPT !.left = Less(@, 1),
                               !.rel  = IF phase' = 0 THEN Less(@, Second) ELSE @]]
  BY DEF Tick
<1>2. \A i \in DOMAIN pit :
        pit'[i] = [pit[i] EXCEPT !.left = Less(@, 1),
                                 !.rel  = IF phase' = 0 THEN Less(@, Second) ELSE @]
  BY <1>1
<1>3. DOMAIN pit' = DOMAIN pit
  BY <1>1, Zenon
<1>4. Len(pit') = Len(pit)
  <2>1. pit' \in Seq(Timer)
    BY TypeStep DEF TypeOK, Next
  <2> QED BY <1>0, <1>3, <2>1, LenProperties
<1>5. ASSUME NEW i \in DOMAIN pit
      PROVE  /\ pit'[i].id = pit[i].id /\ pit'[i].own = pit[i].own
             /\ pit'[i].left = Less(pit[i].left, 1)
             /\ pit'[i].rel = IF phase' = 0 THEN Less(pit[i].rel, Second) ELSE pit[i].rel
  <2>1. pit[i] \in Timer
    BY <1>0, ElementOfSeq
  <2>2. pit[i] = [id |-> pit[i].id, own |-> pit[i].own, rel |-> pit[i].rel, left |-> pit[i].left]
    BY <2>1 DEF Timer
  <2> QED BY <1>2, <2>1 DEF Timer
<1> QED BY <1>0, <1>4, <1>5

\* The phase of the clock wraps at the second.
LEMMA NextPhase ==
    ASSUME NEW n \in 0 .. Second - 1
    PROVE  (n + 1) % Second = IF n = Second - 1 THEN 0 ELSE n + 1
<1>1. Second \in Nat /\ Second > 0
  BY TimesAssumption
<1>2. CASE n = Second - 1
  BY <1>1, <1>2
<1>3. CASE n # Second - 1
  <2>1. n + 1 \in 0 .. Second - 1
    BY <1>1, <1>3
  <2>2. \A m \in 0 .. Second - 1 : m % Second = m
    BY <1>1
  <2> QED BY <1>3, <2>1, <2>2
<1> QED BY <1>2, <1>3

-----------------------------------------------------------------------------
\* MakeTimerID has looked through the list for the id it returns.
LEMMA SetTimerUnique ==
    ASSUME TypeOK, UniqueIds, NEW o \in Owners, NEW delay \in Nat, SetTimer(o, delay)
    PROVE  UniqueIds'
<1>1. PICK k \in 0 .. CounterMod - 1, p \in 1 .. Len(pit) + 1 :
        /\ IdAt(k) \notin IdsInPit
        /\ pit' = InsertAt(pit, p, [id |-> IdAt(k), own |-> o, rel |-> delay, left |-> delay])
  BY DEF SetTimer, Attempts
<1> DEFINE new == [id |-> IdAt(k), own |-> o, rel |-> delay, left |-> delay]
<1>2. new \in Timer /\ new.id = IdAt(k)
  BY IdsTyped DEF TypeOK, Timer
<1> HIDE DEF new
<1>3. /\ Len(pit') = Len(pit) + 1
      /\ \A i \in 1 .. Len(pit) + 1 :
            pit'[i] = IF i < p THEN pit[i] ELSE IF i = p THEN new ELSE pit[i - 1]
  BY <1>1, <1>2, InsertEntries DEF TypeOK, new
<1>4. \A i \in 1 .. Len(pit) : pit[i].id # new.id
  BY <1>1, <1>2 DEF IdsInPit
<1>5. Len(pit) \in Nat
  BY LenProperties DEF TypeOK
<1>6. ASSUME NEW i \in 1 .. Len(pit'), NEW j \in 1 .. Len(pit'), i < j
      PROVE  pit'[i].id # pit'[j].id
  <2>1. CASE i = p
    <3>1. pit'[i] = new /\ pit'[j] = pit[j - 1] /\ j - 1 \in 1 .. Len(pit)
      BY <1>3, <1>5, <1>6, <2>1
    <3> QED BY <1>4, <3>1
  <2>2. CASE j = p
    <3>1. pit'[j] = new /\ pit'[i] = pit[i] /\ i \in 1 .. Len(pit)
      BY <1>3, <1>5, <1>6, <2>2
    <3> QED BY <1>4, <3>1
  <2>3. CASE i # p /\ j # p
    <3>1. PICK a \in 1 .. Len(pit) : a = IF i < p THEN i ELSE i - 1
      BY <1>3, <1>5, <1>6, <2>3
    <3>2. PICK b \in 1 .. Len(pit) : b = IF j < p THEN j ELSE j - 1
      BY <1>3, <1>5, <1>6, <2>3
    <3>3. pit'[i] = pit[a] /\ pit'[j] = pit[b] /\ a # b
      BY <1>3, <1>5, <1>6, <2>3, <3>1, <3>2
    <3> QED BY <3>3 DEF UniqueIds
  <2> QED BY <2>1, <2>2, <2>3
<1>7. \A i, j \in 1 .. Len(pit') : i < j \/ j < i \/ i = j
  BY <1>3, <1>5
<1> QED BY <1>6, <1>7 DEF UniqueIds

LEMMA UniqueStep == TypeOK /\ UniqueIds /\ [Next]_vars => UniqueIds'
<1> SUFFICES ASSUME TypeOK, UniqueIds, [Next]_vars PROVE UniqueIds'
  OBVIOUS
<1>0. pit \in Seq(Timer) /\ Len(pit) \in Nat
  BY LenProperties DEF TypeOK
<1>1. ASSUME NEW o \in Logins, ArmLogin(o) PROVE UniqueIds'
  BY <1>1, SetTimerUnique, TimesAssumption DEF ArmLogin, Owners
<1>2. ASSUME NEW o \in Polls, HoldRecv(o) PROVE UniqueIds'
  BY <1>2, SetTimerUnique, TimesAssumption DEF HoldRecv, Owners
<1>3. ASSUME NEW o \in Owners, Cancel(o) PROVE UniqueIds'
  <2>1. PICK p \in 1 .. Len(pit) : pit' = RemoveAt(pit, p)
    BY <1>3 DEF Cancel
  <2>2. /\ Len(pit') = Len(pit) - 1
        /\ \A i \in 1 .. Len(pit) - 1 : pit'[i] = IF i < p THEN pit[i] ELSE pit[i + 1]
    BY <1>0, <2>1, RemoveEntries
  <2> QED BY <1>0, <2>2 DEF UniqueIds
<1>4. CASE GetTimer
  <2>1. Len(pit') = Len(pit) - 1 /\ \A i \in 1 .. Len(pit') : pit'[i] = pit[i + 1]
    BY <1>0, <1>4, HeadTailProperties DEF GetTimer
  <2> QED BY <1>0, <2>1 DEF UniqueIds
<1>5. CASE PollAgain
  <2>1. firing.own \in Owners
    BY <1>5 DEF PollAgain, Owners
  <2> QED BY <1>5, <2>1, SetTimerUnique, TimesAssumption DEF PollAgain
<1>6. CASE Tick
  <2>1. Len(pit') = Len(pit) /\ \A i \in 1 .. Len(pit) : pit'[i].id = pit[i].id
    BY <1>6, TickEntries
  <2> QED BY <2>1 DEF UniqueIds
<1>7. ASSUME pit' = pit PROVE UniqueIds'
  BY <1>7 DEF UniqueIds
<1>8. \A o \in Owners : ArmRefused(o) \/ CancelMisses(o) \/ CancelThrows(o) \/ Reopen(o)
                           => pit' = pit
  BY DEF ArmRefused, CancelMisses, CancelThrows, Reopen
<1>9. LoginTimedOut \/ PollResumes \/ UNCHANGED vars => pit' = pit
  BY DEF LoginTimedOut, PollResumes, vars
<1> QED
  BY <1>1, <1>2, <1>3, <1>4, <1>5, <1>6, <1>7, <1>8, <1>9 DEF Next, Callback, Owners

\* CancelP2PmsgTimer takes the caller's own timer: no two in the list share an
\* id, whatever the width of the counter and however often it has wrapped.
THEOREM IdsStayUnique == Spec => []UniqueIds
<1>1. Init => UniqueIds
  BY EmptySeq DEF Init, UniqueIds
<1> QED BY <1>1, UniqueStep, TypeCorrect, PTL DEF Spec

-----------------------------------------------------------------------------
(* Who a timer belongs to.                                                 *)

\* What owner o's noted id means.  A timer in the list is the one its owner has
\* noted, and so is the one in flight, whose owner has no other; and an owner
\* with a timer will not arm a second: a login is not "off", a hold has its
\* flag up - which is why Restart may not lower it.
Spoken(e) ==
    /\ slot[e.own] = e.id
    /\ e.own \in Logins => state[e.own] # "off"
    /\ e.own \in Polls => e.own \in held
OwnInv ==
    /\ \A i \in 1 .. Len(pit) : Spoken(pit[i])
    /\ firing # NoTimer =>
         /\ Spoken(firing)
         /\ \A i \in 1 .. Len(pit) : pit[i].own # firing.own

\* The same of a timer e after a step.
StillSpoken(e) ==
    /\ slot'[e.own] = e.id
    /\ e.own \in Logins => state'[e.own] # "off"
    /\ e.own \in Polls => e.own \in held'

LEMMA EntriesTyped ==
    ASSUME TypeOK
    PROVE  \A i \in 1 .. Len(pit) :
             /\ pit[i] \in Timer /\ pit[i].own \in Owners
             /\ pit[i].left \in Nat /\ pit[i].rel \in Nat
<1>1. \A i \in 1 .. Len(pit) : pit[i] \in Timer
  BY ElementOfSeq DEF TypeOK
<1>2. \A e \in Timer : e.own \in Owners /\ e.left \in Nat /\ e.rel \in Nat
  BY DEF Timer
<1> QED BY <1>1, <1>2

\* SetTimer puts one timer in, its owner's, with an id nobody else has.
LEMMA SetTimerEntries ==
    ASSUME TypeOK, NEW o \in Owners, NEW delay \in Nat, SetTimer(o, delay)
    PROVE  \E new \in Timer :
             /\ new.own = o /\ new.left = delay /\ new.rel = delay
             /\ slot' = [slot EXCEPT ![o] = new.id]
             /\ \A i \in 1 .. Len(pit') :
                   pit'[i] = new \/ \E j \in 1 .. Len(pit) : pit'[i] = pit[j]
<1>1. PICK k \in 0 .. CounterMod - 1, p \in 1 .. Len(pit) + 1 :
        /\ pit' = InsertAt(pit, p, [id |-> IdAt(k), own |-> o, rel |-> delay, left |-> delay])
        /\ slot' = [slot EXCEPT ![o] = IdAt(k)]
  BY DEF SetTimer
<1> DEFINE new == [id |-> IdAt(k), own |-> o, rel |-> delay, left |-> delay]
<1>2. /\ new \in Timer /\ new.id = IdAt(k) /\ new.own = o
      /\ new.left = delay /\ new.rel = delay
  BY IdsTyped DEF TypeOK, Timer
<1> HIDE DEF new
<1>3. /\ Len(pit') = Len(pit) + 1
      /\ \A i \in 1 .. Len(pit) + 1 :
            pit'[i] = IF i < p THEN pit[i] ELSE IF i = p THEN new ELSE pit[i - 1]
  BY <1>1, <1>2, InsertEntries DEF TypeOK, new
<1>4. Len(pit) \in Nat
  BY LenProperties DEF TypeOK
<1>5. ASSUME NEW i \in 1 .. Len(pit')
      PROVE  pit'[i] = new \/ \E j \in 1 .. Len(pit) : pit'[i] = pit[j]
  <2>1. CASE i < p
    <3>1. i \in 1 .. Len(pit) /\ pit'[i] = pit[i]
      BY <1>3, <1>4, <2>1
    <3> QED BY <3>1
  <2>2. CASE i > p
    <3>1. i - 1 \in 1 .. Len(pit) /\ pit'[i] = pit[i - 1]
      BY <1>3, <1>4, <2>2
    <3> QED BY <3>1
  <2>3. CASE i = p
    BY <1>3, <2>3
  <2> QED BY <1>3, <1>4, <2>1, <2>2, <2>3
<1>6. slot' = [slot EXCEPT ![o] = new.id]
  BY <1>1, <1>2
<1> QED BY <1>2, <1>5, <1>6

\* An owner that has no timer arms one.
LEMMA ArmKeepsOwn ==
    ASSUME TypeOK, OwnInv, NEW o \in Owners, NEW delay \in Nat, SetTimer(o, delay),
           \A i \in 1 .. Len(pit) : pit[i].own # o,
           firing' = NoTimer,
           o \in Logins => state'[o] # "off",
           o \in Polls => o \in held',
           \A u \in Owners \ {o} : state'[u] = state[u],
           held \subseteq held'
    PROVE  OwnInv'
<1>1. PICK new \in Timer :
             /\ new.own = o
             /\ slot' = [slot EXCEPT ![o] = new.id]
             /\ \A i \in 1 .. Len(pit') :
                   pit'[i] = new \/ \E j \in 1 .. Len(pit) : pit'[i] = pit[j]
  BY SetTimerEntries
<1>2. slot \in [Owners -> Ids \cup {0}]
  BY DEF TypeOK
<1>3. StillSpoken(new)
  BY <1>1, <1>2 DEF Spoken, StillSpoken
<1>4. ASSUME NEW j \in 1 .. Len(pit) PROVE StillSpoken(pit[j])
  <2>1. pit[j] \in Timer /\ pit[j].own \in Owners
    BY EntriesTyped
  <2>2. Spoken(pit[j]) /\ pit[j].own # o
    BY DEF OwnInv
  <2> QED BY <1>1, <1>2, <2>1, <2>2 DEF Spoken, StillSpoken
<1>5. \A i \in 1 .. Len(pit') : StillSpoken(pit'[i])
  <2> TAKE i \in 1 .. Len(pit')
  <2>1. CASE pit'[i] = new
    BY <1>3, <2>1 DEF Spoken, StillSpoken
  <2>2. ASSUME NEW j \in 1 .. Len(pit), pit'[i] = pit[j] PROVE StillSpoken(pit'[i])
    BY <1>4, <2>2 DEF Spoken, StillSpoken
  <2> QED BY <1>1, <2>1, <2>2
<1> QED BY <1>5 DEF OwnInv, Spoken, StillSpoken

LEMMA OwnStep == TypeOK /\ UniqueIds /\ OwnInv /\ [Next]_vars => OwnInv'
<1> SUFFICES ASSUME TypeOK, UniqueIds, OwnInv, [Next]_vars PROVE OwnInv'
  OBVIOUS
<1>0. /\ pit \in Seq(Timer) /\ Len(pit) \in Nat
      /\ \A i \in 1 .. Len(pit) : pit[i] \in Timer /\ pit[i].own \in Owners
      /\ firing # NoTimer => firing \in Timer /\ firing.own \in Owners
      /\ slot \in [Owners -> Ids \cup {0}] /\ state \in [Owners -> States]
  BY LenProperties, EntriesTyped DEF TypeOK, Timer
<1>1. ASSUME NEW o \in Logins, ArmLogin(o) PROVE OwnInv'
  <2>1. \A i \in 1 .. Len(pit) : pit[i].own # o
    BY <1>1 DEF ArmLogin, OwnInv, Spoken, StillSpoken
  <2> QED
    BY <1>0, <1>1, <2>1, ArmKeepsOwn, TimesAssumption, OwnersAssumption
    DEF ArmLogin, Owners
<1>2. ASSUME NEW o \in Polls, HoldRecv(o) PROVE OwnInv'
  <2>1. \A i \in 1 .. Len(pit) : pit[i].own # o
    BY <1>2 DEF HoldRecv, OwnInv, Spoken, StillSpoken
  <2> QED
    BY <1>0, <1>2, <2>1, ArmKeepsOwn, TimesAssumption, OwnersAssumption
    DEF HoldRecv, Owners
<1>3. ASSUME NEW o \in Polls, Reopen(o) PROVE OwnInv'
  BY <1>0, <1>3, OwnersAssumption DEF Reopen, OwnInv, Spoken, StillSpoken
<1>4. ASSUME NEW o \in Owners, ArmRefused(o) \/ CancelMisses(o) \/ CancelThrows(o)
      PROVE  OwnInv'
  BY <1>0, <1>4 DEF ArmRefused, CancelMisses, CancelThrows, Settled, OwnInv, Spoken, StillSpoken
<1>5. ASSUME NEW o \in Owners, Cancel(o) PROVE OwnInv'
  <2>1. PICK p \in 1 .. Len(pit) : pit[p].id = slot[o] /\ pit' = RemoveAt(pit, p)
    BY <1>5 DEF Cancel
  <2>2. /\ Len(pit') = Len(pit) - 1
        /\ \A i \in 1 .. Len(pit) - 1 : pit'[i] = IF i < p THEN pit[i] ELSE pit[i + 1]
    BY <1>0, <2>1, RemoveEntries
  <2>3. ASSUME NEW j \in 1 .. Len(pit), j # p PROVE StillSpoken(pit[j])
    <3>1. Spoken(pit[j]) /\ pit[j].id # slot[o]
      BY <2>1, <2>3 DEF OwnInv, UniqueIds
    <3>2. pit[j].own # o
      BY <3>1 DEF Spoken, StillSpoken
    <3> QED BY <1>0, <1>5, <3>1, <3>2 DEF Cancel, Spoken, StillSpoken
  <2>4. ASSUME NEW i \in 1 .. Len(pit') PROVE StillSpoken(pit'[i])
    <3>1. PICK j \in 1 .. Len(pit) : j = IF i < p THEN i ELSE i + 1
      BY <1>0, <2>2
    <3>2. pit'[i] = pit[j] /\ j # p
      BY <1>0, <2>2, <3>1
    <3> QED BY <2>3, <3>2 DEF Spoken, StillSpoken
  <2> QED BY <1>5, <2>4 DEF Cancel, OwnInv, Spoken, StillSpoken
<1>6. CASE GetTimer
  <2>1. /\ Len(pit') = Len(pit) - 1 /\ \A i \in 1 .. Len(pit') : pit'[i] = pit[i + 1]
        /\ firing' = pit[1] /\ 1 \in 1 .. Len(pit)
    BY <1>0, <1>6, HeadTailProperties, EmptySeq DEF GetTimer
  <2>2. \A i \in 1 .. Len(pit) : StillSpoken(pit[i])
    BY <1>6 DEF GetTimer, OwnInv, Spoken, StillSpoken
  <2>3. \A i \in 1 .. Len(pit') : i + 1 \in 1 .. Len(pit) /\ i + 1 # 1
    BY <1>0, <2>1
  <2>4. \A i \in 1 .. Len(pit') : StillSpoken(pit'[i]) /\ pit'[i].own # pit[1].own
    <3> TAKE i \in 1 .. Len(pit')
    <3>1. i + 1 \in 1 .. Len(pit) /\ i + 1 # 1 /\ pit'[i] = pit[i + 1]
      BY <2>1, <2>3
    <3>2. pit[i + 1].id # pit[1].id
      BY <2>1, <3>1 DEF UniqueIds
    <3> QED BY <2>1, <2>2, <3>1, <3>2 DEF OwnInv, Spoken
  <2>5. StillSpoken(firing')
    BY <2>1, <2>2 DEF Spoken, StillSpoken
  <2> QED BY <2>1, <2>4, <2>5 DEF OwnInv, Spoken, StillSpoken
<1>7. CASE LoginTimedOut \/ PollResumes
  <2>1. ASSUME NEW i \in 1 .. Len(pit) PROVE StillSpoken(pit[i])
    <3>1. Spoken(pit[i]) /\ pit[i].own # firing.own /\ pit[i].own \in Owners
      BY <1>0, <1>7 DEF OwnInv, LoginTimedOut, PollResumes
    <3> QED BY <1>0, <1>7, <3>1 DEF LoginTimedOut, PollResumes, Spoken, StillSpoken
  <2>2. pit' = pit /\ firing' = NoTimer
    BY <1>7 DEF LoginTimedOut, PollResumes
  <2> QED BY <2>1, <2>2 DEF OwnInv, Spoken, StillSpoken
<1>8. CASE PollAgain
  <2>1. firing.own \in Owners /\ firing # NoTimer
    BY <1>8 DEF PollAgain, Owners
  <2>2. Spoken(firing) /\ \A i \in 1 .. Len(pit) : pit[i].own # firing.own
    BY <2>1 DEF OwnInv
  <2> QED
    BY <1>0, <1>8, <2>1, <2>2, ArmKeepsOwn, TimesAssumption, OwnersAssumption
    DEF PollAgain, Spoken, StillSpoken
<1>9. CASE Tick
  <2>1. /\ Len(pit') = Len(pit)
        /\ \A i \in 1 .. Len(pit) : pit'[i].id = pit[i].id /\ pit'[i].own = pit[i].own
    BY <1>9, TickEntries
  <2>2. UNCHANGED <<firing, slot, held, state>>
    BY <1>9 DEF Tick
  <2>3. ASSUME NEW i \in 1 .. Len(pit') PROVE StillSpoken(pit'[i])
    <3>1. Spoken(pit[i])
      BY <2>1 DEF OwnInv
    <3> QED BY <2>1, <2>2, <3>1 DEF Spoken, StillSpoken
  <2>4. firing # NoTimer => \A i \in 1 .. Len(pit') : pit'[i].own # firing.own
    BY <2>1 DEF OwnInv
  <2> QED BY <2>2, <2>3, <2>4 DEF OwnInv, Spoken, StillSpoken
<1>10. CASE UNCHANGED vars
  BY <1>10 DEF vars, OwnInv, Spoken, StillSpoken
<1> QED
  BY <1>1, <1>2, <1>3, <1>4, <1>5, <1>6, <1>7, <1>8, <1>9, <1>10
  DEF Next, Callback, Owners

\* The branch of On_PITimer marked SNHappen does not: the timer called back is
\* the one its owner has noted, through cancellations that miss, refused timers,
\* restarts and however many wraps of the counter.
THEOREM CallbacksAreKnown == Spec => []CallbackKnown
<1>1. Init => OwnInv
  BY EmptySeq DEF Init, OwnInv
<1>2. OwnInv => CallbackKnown
  BY DEF OwnInv, Spoken, CallbackKnown
<1> QED BY <1>1, <1>2, OwnStep, TypeCorrect, IdsStayUnique, PTL DEF Spec

-----------------------------------------------------------------------------
(* How early a timer may fire.                                             *)

\* The whole seconds the code counts may run ahead of the time that remains by
\* what is left of the current second, never by more.
DriftInv ==
    /\ \A i \in 1 .. Len(pit) : pit[i].left <= pit[i].rel + (Second - 1 - phase)
    /\ firing # NoTimer => firing.left < Second

LEMMA DriftStep == TypeOK /\ DriftInv /\ [Next]_vars => DriftInv'
<1> SUFFICES ASSUME TypeOK, DriftInv, [Next]_vars PROVE DriftInv'
  OBVIOUS
<1>0. /\ pit \in Seq(Timer) /\ Len(pit) \in Nat
      /\ phase \in 0 .. Second - 1 /\ Second \in Nat /\ Second > 0
      /\ \A i \in 1 .. Len(pit) : pit[i].left \in Nat /\ pit[i].rel \in Nat
  BY LenProperties, EntriesTyped, TimesAssumption DEF TypeOK
<1>1. ASSUME NEW o \in Owners, NEW delay \in Nat, SetTimer(o, delay),
             phase' = phase, firing' = NoTimer
      PROVE  DriftInv'
  <2>1. PICK new \in Timer :
             /\ new.left = delay /\ new.rel = delay
             /\ \A i \in 1 .. Len(pit') :
                   pit'[i] = new \/ \E j \in 1 .. Len(pit) : pit'[i] = pit[j]
    BY <1>1, SetTimerEntries
  <2>2. new.left <= new.rel + (Second - 1 - phase)
    BY <1>0, <2>1
  <2> QED BY <1>1, <2>1, <2>2 DEF DriftInv
<1>2. ASSUME NEW o \in Owners, ArmLogin(o) \/ HoldRecv(o) PROVE DriftInv'
  BY <1>1, <1>2, TimesAssumption DEF ArmLogin, HoldRecv
<1>3. CASE PollAgain
  BY <1>1, <1>3, TimesAssumption DEF PollAgain, Owners
<1>4. ASSUME NEW o \in Owners, Cancel(o) PROVE DriftInv'
  <2>1. PICK p \in 1 .. Len(pit) : pit' = RemoveAt(pit, p)
    BY <1>4 DEF Cancel
  <2>2. /\ Len(pit') = Len(pit) - 1
        /\ \A i \in 1 .. Len(pit) - 1 : pit'[i] = IF i < p THEN pit[i] ELSE pit[i + 1]
    BY <1>0, <2>1, RemoveEntries
  <2>3. ASSUME NEW i \in 1 .. Len(pit')
        PROVE  pit'[i].left <= pit'[i].rel + (Second - 1 - phase)
    <3>1. PICK j \in 1 .. Len(pit) : j = IF i < p THEN i ELSE i + 1
      BY <1>0, <2>2
    <3>2. pit'[i] = pit[j]
      BY <1>0, <2>2, <3>1
    <3> QED BY <3>2 DEF DriftInv
  <2>4. phase' = phase /\ firing' = firing
    BY <1>4 DEF Cancel
  <2> QED BY <2>3, <2>4 DEF DriftInv
<1>5. CASE GetTimer
  <2>1. /\ Len(pit') = Len(pit) - 1 /\ \A i \in 1 .. Len(pit') : pit'[i] = pit[i + 1]
        /\ firing' = pit[1] /\ 1 \in 1 .. Len(pit) /\ pit[1].rel <= 0
    BY <1>0, <1>5, HeadTailProperties, EmptySeq DEF GetTimer
  <2>2. firing'.left < Second
    BY <1>0, <2>1 DEF DriftInv
  <2> QED BY <1>0, <1>5, <2>1, <2>2 DEF GetTimer, DriftInv
<1>6. CASE Tick
  <2>1. /\ Len(pit') = Len(pit)
        /\ \A i \in 1 .. Len(pit) :
             /\ pit'[i].left = Less(pit[i].left, 1)
             /\ pit'[i].rel = IF phase' = 0 THEN Less(pit[i].rel, Second) ELSE pit[i].rel
    BY <1>6, TickEntries
  <2>2. phase' = IF phase = Second - 1 THEN 0 ELSE phase + 1
    BY <1>0, <1>6, NextPhase DEF Tick
  <2>3. ASSUME NEW i \in 1 .. Len(pit)
        PROVE  pit'[i].left <= pit'[i].rel + (Second - 1 - phase')
    <3> DEFINE a == pit[i].left
               b == pit[i].rel
    <3>1. a \in Nat /\ b \in Nat /\ a <= b + (Second - 1 - phase) /\ phase \in 0 .. Second - 1
      BY <1>0, EntriesTyped DEF DriftInv, TypeOK
    <3>2. pit'[i].left = Less(a, 1) /\ pit'[i].rel = IF phase' = 0 THEN Less(b, Second) ELSE b
      BY <2>1
    <3> HIDE DEF a, b
    <3>3. Less(a, 1) <= (IF phase' = 0 THEN Less(b, Second) ELSE b) + (Second - 1 - phase')
      BY <2>2, <3>1, TimesAssumption DEF Less
    <3> QED BY <3>2, <3>3
  <2> QED BY <1>6, <2>1, <2>3 DEF Tick, DriftInv
<1>7. ASSUME pit' = pit, phase' = phase, firing' \in {firing, NoTimer} PROVE DriftInv'
  BY <1>7 DEF DriftInv
<1>8. \A o \in Owners : ArmRefused(o) \/ CancelMisses(o) \/ CancelThrows(o) \/ Reopen(o)
                           => UNCHANGED <<pit, phase, firing>>
  BY DEF ArmRefused, CancelMisses, CancelThrows, Reopen
<1>9. LoginTimedOut \/ PollResumes \/ UNCHANGED vars
          => pit' = pit /\ phase' = phase /\ firing' \in {firing, NoTimer}
  BY DEF LoginTimedOut, PollResumes, vars
<1> QED
  BY <1>2, <1>3, <1>4, <1>5, <1>6, <1>7, <1>8, <1>9 DEF Next, Callback, Owners

\* Reading the clock in whole seconds costs a timer less than one second,
\* whatever its delay and however long other callbacks keep it waiting.
THEOREM NotASecondEarly == Spec => []NeverASecondEarly
<1>1. Init => DriftInv
  BY EmptySeq DEF Init, DriftInv
<1>2. DriftInv => NeverASecondEarly
  BY DEF DriftInv, NeverASecondEarly
<1> QED BY <1>1, <1>2, DriftStep, TypeCorrect, PTL DEF Spec
===============================================================================
