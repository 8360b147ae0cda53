------------------------- MODULE P2PeerConLife_proofs -------------------------
(***************************************************************************)
(* Theorems about P2PeerConLife, for any connections, threads and signals. *)
(*                                                                         *)
(* The count is exact (RefInv) only as long as nobody takes a reference to *)
(* a connection that its last Release has claimed, or has deleted.  Apps   *)
(* cannot: what is listed and claimed TryAddRef refuses.  The hub can, it  *)
(* signals a bare pointer as it closes; WalkInv says why it does so once   *)
(* for each, which bounds how far a claimed count can come back (FewLeft). *)
(* RestInv is what reclaims: a connection at zero rests in the registry,   *)
(* undestroyed, or a Release that has seen the zero is about to claim it.  *)
(* ConInv gathers what is said of one connection, IInv is inductive.       *)
(*                                                                         *)
(* Balanced is what most steps have in common: each takes or gives back    *)
(* exactly as many references as it adds or removes holders.               *)
(***************************************************************************)
EXTENDS P2PeerConLife, SequenceTheorems, FiniteSetTheorems, TLAPS

Jobs     == [do : {"idle", "walk", "post", "start", "leave"}, con : Connections \cup {None}]
Releases == [con : Connections \cup {None}, at : {"none", "down", "look", "claim", "drop"}, seen : Int]
Packets  == [con : Connections, op : {"recv"} \cup Signals]
Notes    == [con : Connections, msg : {"startup", "close"}]

TypeInv ==
    /\ heap \in [Connections -> {"live", "freed"}] /\ ref \in [Connections -> Int]
    /\ destroyed \in [Connections -> BOOLEAN] /\ keyed \in [Connections -> BOOLEAN]
    /\ bound \in [Connections -> BOOLEAN] /\ open \in [Connections -> BOOLEAN]
    /\ recv \in [Connections -> {"idle", "flying", "port"}]
    /\ hubList \in Seq(Connections) /\ port \in Seq(Packets) /\ fifo \in Seq(Notes)
    /\ hub \in {"run", "signalling", "signal", "ended", "pinned", "draining", "unpinning", "gone"}
    /\ cursor \in Connections \cup {None} /\ pins \in SUBSET Connections
    /\ job \in [Apps -> Jobs] /\ held \in [Apps -> SUBSET Connections]
    /\ safe \in [Apps -> Connections \cup {None}] /\ rel \in [Threads -> Releases]
    /\ offered \in SUBSET Connections

Dead(c)  == heap[c] = "freed" \/ ref[c] < 0
Posted(c) == \E i \in 1 .. Len(port) : port[i].con = c
Noted(c)  == \E i \in 1 .. Len(fifo) : fifo[i].con = c

\* The count is exact, and far below zero for one that is being deleted.
RefInv(c) ==
    heap[c] = "live" =>
        IF ref[c] < 0 THEN ref[c] <= Dying + Holders(c) ELSE ref[c] = Holders(c)

\* What is dead is held by nobody but the hub that closes.
LastInv(c) ==
    Dead(c) =>
        /\ ~Noted(c) /\ recv[c] # "flying"
        /\ \A t \in Apps : /\ c \notin held[t] /\ safe[t] # c /\ job[t].con # c
                           /\ rel[t].con = c => rel[t].at # "down"
        /\ \A i, j \in 1 .. Len(port) : port[i].con = c /\ port[j].con = c => i = j
        /\ hub = "run" => ~Posted(c) /\ (rel[Hub].con = c => rel[Hub].at # "down")

\* One receive of a connection, one start.
RecvInv(c) ==
    /\ \A i \in 1 .. Len(port) : port[i].con = c /\ port[i].op = "recv" =>
         /\ recv[c] = "port"
         /\ \A j \in 1 .. Len(port) : port[j].con = c /\ port[j].op = "recv" => i = j
    /\ \A i \in 1 .. Len(fifo) : fifo[i] = [con |-> c, msg |-> "startup"] =>
         /\ recv[c] = "idle"
         /\ \A j \in 1 .. Len(fifo) : fifo[j] = [con |-> c, msg |-> "startup"] => i = j

FreshInv(c) ==
    c \notin offered =>
        /\ heap[c] = "live" /\ ref[c] = 0 /\ ~keyed[c] /\ recv[c] = "idle"
        /\ \A t \in Threads : rel[t].con # c

\* A connection nobody holds rests in the registry, or some Release is about to delete it.
RestInv(c) ==
    heap[c] = "live" /\ c \in offered =>
        /\ ref[c] < 0 => \E t \in Threads : rel[t].con = c /\ rel[t].at = "drop"
        /\ ref[c] = 0 => \/ keyed[c] /\ ~destroyed[c]
                         \/ \E t \in Threads : rel[t].con = c /\ rel[t].at \in {"look", "claim"}
                                               /\ rel[t].seen = 0

ListInv ==
    /\ \A i, j \in 1 .. Len(hubList) : hubList[i] = hubList[j] => i = j
    /\ \A c \in Connections : keyed[c] <=> \E i \in 1 .. Len(hubList) : hubList[i] = c
    /\ \A c \in Connections : keyed[c] => heap[c] = "live"

RelInv ==
    \A t \in Threads :
        /\ rel[t].at # "none" => rel[t].con \in Connections
        /\ rel[t].at \in {"look", "claim"} => rel[t].seen <= 0
        /\ rel[t].at = "drop" => Dead(rel[t].con)

JobInv ==
    \A t \in Apps :
        /\ job[t].do # "idle" => section = t
        /\ job[t].do = "idle" => held[t] = {}
        /\ job[t].do \in {"idle", "walk"} => job[t].con = None
        /\ job[t].con # None => job[t].con \in offered
        /\ job[t].do \in {"post", "start"} =>
             /\ job[t].con # None /\ recv[job[t].con] = "idle"
             /\ \A i \in 1 .. Len(fifo) : fifo[i] # [con |-> job[t].con, msg |-> "startup"]
        /\ job[t].do = "post" =>
             /\ ~keyed[job[t].con]
             /\ \A i \in 1 .. Len(hubList) : ~Claimed(hubList[i]) => hubList[i] \in held[t]

PhaseInv ==
    /\ hub \in {"run", "signalling", "signal", "ended"} => pins = {}
    /\ hub = "pinned" => \A c \in Connections : keyed[c] => c \in pins
    /\ hub \in {"draining", "unpinning", "gone"} => \A c \in Connections : keyed[c] => destroyed[c]

Before(c, d) ==
    \E i, j \in 1 .. Len(hubList) : i < j /\ hubList[i] = c /\ hubList[j] = d

WalkInv ==
    hub \in {"signalling", "signal"} =>
        /\ hub = "signal" => cursor \in Connections
        /\ cursor # None => keyed[cursor] \/ heap[cursor] = "freed"
        /\ \A c \in Connections : Dead(c) /\ Posted(c) /\ keyed[c] =>
             cursor # None /\ (~keyed[cursor] \/ Before(c, cursor) \/ (c = cursor /\ hub = "signalling"))

ConInv(c) == RefInv(c) /\ LastInv(c) /\ RecvInv(c) /\ FreshInv(c) /\ RestInv(c)

IInv ==
    /\ TypeInv /\ ListInv /\ RelInv /\ JobInv /\ PhaseInv /\ WalkInv /\ NoTwins
    /\ \A c \in Connections : ConInv(c)

-------------------------------------------------------------------------------
(* Counting.                                                               *)

LEMMA EntryCounted ==
    ASSUME NEW S, NEW q \in Seq(S), NEW c
    PROVE  Count(q, c) \in Nat /\ (Count(q, c) = 0 <=> \A i \in 1 .. Len(q) : q[i].con # c)
<1> DEFINE T == {i \in 1 .. Len(q) : q[i].con = c}
<1>1. DOMAIN q = 1 .. Len(q) /\ Len(q) \in Nat
  BY LenProperties
<1>2. IsFiniteSet(1 .. Len(q))
  BY <1>1, FS_Interval
<1>3. IsFiniteSet(T)
  BY <1>2, FS_Subset
<1>4. Cardinality(T) \in Nat /\ (Cardinality(T) = 0 <=> T = {})
  BY <1>3, FS_EmptySet, FS_CardinalityType
<1> QED BY <1>1, <1>4 DEF Count

LEMMA AppendCounted ==
    ASSUME NEW S, NEW q \in Seq(S), NEW e \in S, NEW c
    PROVE  Count(Append(q, e), c) = Count(q, c) + (IF e.con = c THEN 1 ELSE 0)
<1> DEFINE n == Len(q)
           p == Append(q, e)
           T == {i \in 1 .. n : q[i].con = c}
           U == {i \in 1 .. n + 1 : p[i].con = c}
<1>1. /\ n \in Nat /\ DOMAIN q = 1 .. n /\ DOMAIN p = 1 .. n + 1
      /\ \A i \in 1 .. n : p[i] = q[i]
      /\ p[n + 1] = e
  BY AppendProperties, LenProperties
<1> HIDE DEF n, p
<1>2. U = IF e.con = c THEN T \cup {n + 1} ELSE T
  BY <1>1
<1>3. IsFiniteSet(T) /\ n + 1 \notin T
  <2>1. IsFiniteSet(1 .. n) /\ T \in SUBSET (1 .. n) /\ n + 1 \notin T
    BY <1>1, FS_Interval
  <2> QED BY <2>1, FS_Subset
<1> HIDE DEF T, U
<1>4. Cardinality(U) = Cardinality(T) + (IF e.con = c THEN 1 ELSE 0)
  <2>1. Cardinality(T) \in Nat /\ Cardinality(T \cup {n + 1}) = Cardinality(T) + 1
    BY <1>3, FS_AddElement, FS_CardinalityType
  <2> QED BY <1>2, <2>1
<1> USE DEF T, U
<1> QED BY <1>1, <1>4 DEF Count, p

LEMMA TailCounted ==
    ASSUME NEW S, NEW q \in Seq(S), q # <<>>, NEW c
    PROVE  Count(q, c) = Count(Tail(q), c) + (IF Head(q).con = c THEN 1 ELSE 0)
<1> DEFINE n == Len(q)
           p == Tail(q)
           T == {i \in 1 .. n - 1 : p[i].con = c}
           V == {i \in 2 .. n : q[i].con = c}
           U == {i \in 1 .. n : q[i].con = c}
<1>1. /\ n \in Nat /\ n > 0 /\ DOMAIN q = 1 .. n /\ DOMAIN p = 1 .. n - 1
      /\ \A i \in 1 .. n - 1 : p[i] = q[i + 1]
      /\ Head(q) = q[1]
  BY HeadTailProperties, LenProperties, EmptySeq
<1> HIDE DEF n, p
<1>2. U = IF Head(q).con = c THEN V \cup {1} ELSE V
  BY <1>1
<1>3. IsFiniteSet(T) /\ IsFiniteSet(V) /\ 1 \notin V
  <2>1. /\ IsFiniteSet(1 .. n - 1) /\ T \in SUBSET (1 .. n - 1)
        /\ IsFiniteSet(2 .. n) /\ V \in SUBSET (2 .. n) /\ 1 \notin V
    BY <1>1, FS_Interval
  <2> QED BY <2>1, FS_Subset
<1>4. Cardinality(T) = Cardinality(V)
  <2> DEFINE f == [i \in T |-> i + 1]
  <2>1. f \in Bijection(T, V)
    <3>1. f \in Injection(T, V)
      BY <1>1 DEF Injection, IsInjective
    <3>2. \A j \in V : \E i \in T : f[i] = j
      <4> TAKE j \in V
      <4>1. j - 1 \in T /\ f[j - 1] = j
        BY <1>1
      <4> QED BY <4>1
    <3>3. f \in [T -> V]
      BY <1>1
    <3> QED BY <3>1, <3>2, <3>3 DEF Bijection, Surjection
  <2> QED BY <1>3, <2>1, FS_Bijection DEF ExistsBijection
<1> HIDE DEF T, U, V
<1>5. Cardinality(U) = Cardinality(T) + (IF Head(q).con = c THEN 1 ELSE 0)
  <2>1. Cardinality(V) \in Nat /\ Cardinality(V \cup {1}) = Cardinality(V) + 1
    BY <1>3, FS_AddElement, FS_CardinalityType
  <2> QED BY <1>2, <1>4, <2>1
<1> USE DEF T, U
<1> QED BY <1>1, <1>5 DEF Count, p

\* One thread, out of those that do something, told apart.
Holds(S, x) == IF x \in S THEN 1 ELSE 0

LEMMA OneCounted ==
    ASSUME NEW S \in SUBSET Threads, NEW T \in SUBSET Threads, NEW t, S \ {t} = T \ {t}
    PROVE  /\ Cardinality(S) \in Nat /\ Cardinality(T) \in Nat
           /\ Cardinality(T) + Holds(S, t) = Cardinality(S) + Holds(T, t)
<1>1. IsFiniteSet(Threads)
  BY ThreadsAssumption, FS_AddElement DEF Threads
<1>2. IsFiniteSet(S) /\ IsFiniteSet(T)
  BY <1>1, FS_Subset
<1>3. /\ Cardinality(S) \in Nat /\ Cardinality(T) \in Nat
      /\ Cardinality(S \ {t}) = IF t \in S THEN Cardinality(S) - 1 ELSE Cardinality(S)
      /\ Cardinality(T \ {t}) = IF t \in T THEN Cardinality(T) - 1 ELSE Cardinality(T)
  BY <1>2, FS_RemoveElement, FS_CardinalityType
<1> DEFINE n == Cardinality(S)
           m == Cardinality(T)
           k == Cardinality(S \ {t})
<1>4. /\ n \in Nat /\ m \in Nat /\ k = (IF t \in S THEN n - 1 ELSE n)
      /\ k = (IF t \in T THEN m - 1 ELSE m)
  BY <1>3
<1> HIDE DEF n, m, k
<1>5. m + Holds(S, t) = n + Holds(T, t)
  BY <1>4 DEF Holds
<1> QED BY <1>4, <1>5 DEF n, m

\* The parts of Holders.
Is(x, c)   == IF x = c THEN 1 ELSE 0
IsDown(r, c) == IF r.con = c /\ r.at = "down" THEN 1 ELSE 0
Ports(c)   == Count(port, c)
Notices(c) == Count(fifo, c)
Flights(c) == IF recv[c] = "flying" THEN 1 ELSE 0
Pins(c)    == Holds(pins, c)
Walks(c)   == Cardinality({t \in Apps : c \in held[t]})
Keeps(c)   == Cardinality({t \in Apps : safe[t] = c})
Posts(c)   == Cardinality({t \in Apps : job[t].con = c})
Downs(c)   == Cardinality({t \in Threads : rel[t].con = c /\ rel[t].at = "down"})

LEMMA Parts ==
    ASSUME TypeInv, NEW c \in Connections
    PROVE  /\ Ports(c) \in Nat /\ Notices(c) \in Nat /\ Flights(c) \in Nat /\ Pins(c) \in Nat
           /\ Walks(c) \in Nat /\ Keeps(c) \in Nat /\ Posts(c) \in Nat /\ Downs(c) \in Nat
           /\ Holders(c) = Ports(c) + Notices(c) + Flights(c) + Pins(c)
                             + Walks(c) + Keeps(c) + Posts(c) + Downs(c)
           /\ Holders(c) \in Nat
<1>1. Ports(c) \in Nat /\ Notices(c) \in Nat
  BY EntryCounted DEF TypeInv, Ports, Notices
<1>2. Flights(c) \in Nat /\ Pins(c) \in Nat
  BY DEF Flights, Pins, Holds
<1>3. /\ {t \in Apps : c \in held[t]} \in SUBSET Threads
      /\ {t \in Apps : safe[t] = c} \in SUBSET Threads
      /\ {t \in Apps : job[t].con = c} \in SUBSET Threads
      /\ {t \in Threads : rel[t].con = c /\ rel[t].at = "down"} \in SUBSET Threads
  BY DEF Threads
<1>5. Walks(c) \in Nat /\ Keeps(c) \in Nat /\ Posts(c) \in Nat /\ Downs(c) \in Nat
  BY <1>3, OneCounted DEF Walks, Keeps, Posts, Downs
<1>6. Holders(c) = Ports(c) + Notices(c) + Flights(c) + Pins(c)
                     + Walks(c) + Keeps(c) + Posts(c) + Downs(c)
  BY DEF Holders, Ports, Notices, Flights, Pins, Holds, Walks, Keeps, Posts, Downs
<1> QED BY <1>1, <1>2, <1>5, <1>6

\* What is not touched is not counted otherwise.
LEMMA Same ==
    ASSUME TypeInv, NEW c \in Connections
    PROVE  /\ port' = port => Ports(c)' - Ports(c) = 0
           /\ fifo' = fifo => Notices(c)' - Notices(c) = 0
           /\ recv' = recv => Flights(c)' - Flights(c) = 0
           /\ pins' = pins => Pins(c)' - Pins(c) = 0
           /\ held' = held => Walks(c)' - Walks(c) = 0
           /\ safe' = safe => Keeps(c)' - Keeps(c) = 0
           /\ job' = job => Posts(c)' - Posts(c) = 0
           /\ rel' = rel => Downs(c)' - Downs(c) = 0
<1>1. /\ port' = port => Ports(c)' = Ports(c)
      /\ fifo' = fifo => Notices(c)' = Notices(c)
      /\ recv' = recv => Flights(c)' = Flights(c)
      /\ pins' = pins => Pins(c)' = Pins(c)
      /\ held' = held => Walks(c)' = Walks(c)
      /\ safe' = safe => Keeps(c)' = Keeps(c)
      /\ job' = job => Posts(c)' = Posts(c)
      /\ rel' = rel => Downs(c)' = Downs(c)
  BY DEF Ports, Notices, Flights, Pins, Walks, Keeps, Posts, Downs
<1> QED BY <1>1, Parts

LEMMA PortGains ==
    ASSUME TypeInv, NEW c \in Connections, NEW e \in Packets, port' = Append(port, e)
    PROVE  Ports(c)' - Ports(c) = Is(e.con, c)
<1>0. port \in Seq(Packets)
  BY DEF TypeInv
<1>1. Count(Append(port, e), c) = Count(port, c) + Is(e.con, c)
  BY <1>0, AppendCounted DEF Is
<1>2. Ports(c)' = Ports(c) + Is(e.con, c)
  BY <1>1 DEF Ports
<1>3. Ports(c) \in Int /\ Is(e.con, c) \in Int
  BY Parts DEF Is
<1> QED BY <1>2, <1>3

LEMMA PortLoses ==
    ASSUME TypeInv, NEW c \in Connections, port # <<>>, port' = Tail(port)
    PROVE  Ports(c)' - Ports(c) = 0 - Is(Head(port).con, c)
<1> DEFINE n == Ports(c)
           m == Ports(c)'
<1>1. n = m + Is(Head(port).con, c)
  BY TailCounted DEF TypeInv, Ports, Is
<1>2. n \in Nat /\ m \in Nat
  <2>1. Tail(port) \in Seq(Packets)
    BY HeadTailProperties DEF TypeInv
  <2> QED BY <2>1, EntryCounted, Parts DEF Ports
<1> HIDE DEF n, m
<1>3. m - n = 0 - Is(Head(port).con, c)
  BY <1>1, <1>2 DEF Is
<1> QED BY <1>3 DEF n, m

LEMMA FifoGains ==
    ASSUME TypeInv, NEW c \in Connections, NEW e \in Notes, fifo' = Append(fifo, e)
    PROVE  Notices(c)' - Notices(c) = Is(e.con, c)
<1>0. fifo \in Seq(Notes)
  BY DEF TypeInv
<1>1. Count(Append(fifo, e), c) = Count(fifo, c) + Is(e.con, c)
  BY <1>0, AppendCounted DEF Is
<1>2. Notices(c)' = Notices(c) + Is(e.con, c)
  BY <1>1 DEF Notices
<1>3. Notices(c) \in Int /\ Is(e.con, c) \in Int
  BY Parts DEF Is
<1> QED BY <1>2, <1>3

LEMMA FifoLoses ==
    ASSUME TypeInv, NEW c \in Connections, fifo # <<>>, fifo' = Tail(fifo)
    PROVE  Notices(c)' - Notices(c) = 0 - Is(Head(fifo).con, c)
<1> DEFINE n == Notices(c)
           m == Notices(c)'
<1>1. n = m + Is(Head(fifo).con, c)
  BY TailCounted DEF TypeInv, Notices, Is
<1>2. n \in Nat /\ m \in Nat
  <2>1. Tail(fifo) \in Seq(Notes)
    BY HeadTailProperties DEF TypeInv
  <2> QED BY <2>1, EntryCounted, Parts DEF Notices
<1> HIDE DEF n, m
<1>3. m - n = 0 - Is(Head(fifo).con, c)
  BY <1>1, <1>2 DEF Is
<1> QED BY <1>3 DEF n, m

LEMMA DownMoves ==
    ASSUME TypeInv, NEW c \in Connections, NEW t \in Threads, NEW r, rel' = [rel EXCEPT ![t] = r]
    PROVE  Downs(c)' - Downs(c) = IsDown(r, c) - IsDown(rel[t], c)
<1> DEFINE S == {u \in Threads : rel[u].con = c /\ rel[u].at = "down"}
           T == {u \in Threads : rel'[u].con = c /\ rel'[u].at = "down"}
<1>1. rel'[t] = r /\ \A u \in Threads : u # t => rel'[u] = rel[u]
  BY DEF TypeInv
<1>2. /\ S \in SUBSET Threads /\ T \in SUBSET Threads /\ S \ {t} = T \ {t}
      /\ Holds(S, t) = IsDown(rel[t], c) /\ Holds(T, t) = IsDown(r, c)
  BY <1>1 DEF Holds, Threads, IsDown
<1> HIDE DEF S, T
<1>3. Cardinality(T) + Holds(S, t) = Cardinality(S) + Holds(T, t)
  BY <1>2, OneCounted
<1> DEFINE n == Cardinality(S)
           m == Cardinality(T)
<1>4. n \in Nat /\ m \in Nat /\ m + IsDown(rel[t], c) = n + IsDown(r, c)
  BY <1>2, <1>3, OneCounted
<1> HIDE DEF n, m
<1>5. m - n = IsDown(r, c) - IsDown(rel[t], c)
  BY <1>4 DEF Is, IsDown, Holds
<1> QED BY <1>5 DEF Downs, S, T, n, m

LEMMA WalkMoves ==
    ASSUME TypeInv, NEW c \in Connections, NEW t \in Apps, NEW r, held' = [held EXCEPT ![t] = r]
    PROVE  Walks(c)' - Walks(c) = Holds(r, c) - Holds(held[t], c)
<1> DEFINE S == {u \in Apps : c \in held[u]}
           T == {u \in Apps : c \in held'[u]}
<1>1. held'[t] = r /\ \A u \in Apps : u # t => held'[u] = held[u]
  BY DEF TypeInv
<1>2. /\ S \in SUBSET Threads /\ T \in SUBSET Threads /\ S \ {t} = T \ {t}
      /\ Holds(S, t) = Holds(held[t], c) /\ Holds(T, t) = Holds(r, c)
  BY <1>1 DEF Holds, Threads
<1> HIDE DEF S, T
<1>3. Cardinality(T) + Holds(S, t) = Cardinality(S) + Holds(T, t)
  BY <1>2, OneCounted
<1> DEFINE n == Cardinality(S)
           m == Cardinality(T)
<1>4. n \in Nat /\ m \in Nat /\ m + Holds(held[t], c) = n + Holds(r, c)
  BY <1>2, <1>3, OneCounted
<1> HIDE DEF n, m
<1>5. m - n = Holds(r, c) - Holds(held[t], c)
  BY <1>4 DEF Is, IsDown, Holds
<1> QED BY <1>5 DEF Walks, S, T, n, m

LEMMA KeepMoves ==
    ASSUME TypeInv, NEW c \in Connections, NEW t \in Apps, NEW r, safe' = [safe EXCEPT ![t] = r]
    PROVE  Keeps(c)' - Keeps(c) = Is(r, c) - Is(safe[t], c)
<1> DEFINE S == {u \in Apps : safe[u] = c}
           T == {u \in Apps : safe'[u] = c}
<1>1. safe'[t] = r /\ \A u \in Apps : u # t => safe'[u] = safe[u]
  BY DEF TypeInv
<1>2. /\ S \in SUBSET Threads /\ T \in SUBSET Threads /\ S \ {t} = T \ {t}
      /\ Holds(S, t) = Is(safe[t], c) /\ Holds(T, t) = Is(r, c)
  BY <1>1 DEF Holds, Threads, Is
<1> HIDE DEF S, T
<1>3. Cardinality(T) + Holds(S, t) = Cardinality(S) + Holds(T, t)
  BY <1>2, OneCounted
<1> DEFINE n == Cardinality(S)
           m == Cardinality(T)
<1>4. n \in Nat /\ m \in Nat /\ m + Is(safe[t], c) = n + Is(r, c)
  BY <1>2, <1>3, OneCounted
<1> HIDE DEF n, m
<1>5. m - n = Is(r, c) - Is(safe[t], c)
  BY <1>4 DEF Is, IsDown, Holds
<1> QED BY <1>5 DEF Keeps, S, T, n, m

LEMMA PostMoves ==
    ASSUME TypeInv, NEW c \in Connections, NEW t \in Apps, NEW r, job' = [job EXCEPT ![t] = r]
    PROVE  Posts(c)' - Posts(c) = Is(r.con, c) - Is(job[t].con, c)
<1> DEFINE S == {u \in Apps : job[u].con = c}
           T == {u \in Apps : job'[u].con = c}
<1>1. job'[t] = r /\ \A u \in Apps : u # t => job'[u] = job[u]
  BY DEF TypeInv
<1>2. /\ S \in SUBSET Threads /\ T \in SUBSET Threads /\ S \ {t} = T \ {t}
      /\ Holds(S, t) = Is(job[t].con, c) /\ Holds(T, t) = Is(r.con, c)
  BY <1>1 DEF Holds, Threads, Is
<1> HIDE DEF S, T
<1>3. Cardinality(T) + Holds(S, t) = Cardinality(S) + Holds(T, t)
  BY <1>2, OneCounted
<1> DEFINE n == Cardinality(S)
           m == Cardinality(T)
<1>4. n \in Nat /\ m \in Nat /\ m + Is(job[t].con, c) = n + Is(r.con, c)
  BY <1>2, <1>3, OneCounted
<1> HIDE DEF n, m
<1>5. m - n = Is(r.con, c) - Is(job[t].con, c)
  BY <1>4 DEF Is, IsDown, Holds
<1> QED BY <1>5 DEF Posts, S, T, n, m

-------------------------------------------------------------------------------
(* What the invariant says of one connection.                              *)

LEMMA NoneLeft ==
    TypeInv => \A c \in Connections : Holders(c) = 0 =>
        /\ ~Posted(c) /\ ~Noted(c) /\ recv[c] # "flying" /\ c \notin pins
        /\ \A t \in Apps : c \notin held[t] /\ safe[t] # c /\ job[t].con # c
        /\ \A t \in Threads : rel[t].con = c => rel[t].at # "down"
<1> SUFFICES ASSUME TypeInv, NEW c \in Connections, Holders(c) = 0
             PROVE  /\ ~Posted(c) /\ ~Noted(c) /\ recv[c] # "flying" /\ c \notin pins
                    /\ \A t \in Apps : c \notin held[t] /\ safe[t] # c /\ job[t].con # c
                    /\ \A t \in Threads : rel[t].con = c => rel[t].at # "down"
  OBVIOUS
<1>1. /\ Ports(c) = 0 /\ Notices(c) = 0 /\ Flights(c) = 0 /\ Pins(c) = 0
      /\ Walks(c) = 0 /\ Keeps(c) = 0 /\ Posts(c) = 0 /\ Downs(c) = 0
  <2> DEFINE a == Ports(c)   b == Notices(c)   d == Flights(c)   e == Pins(c)
             f == Walks(c)   g == Keeps(c)     h == Posts(c)     k == Downs(c)
  <2>1. /\ a \in Nat /\ b \in Nat /\ d \in Nat /\ e \in Nat
        /\ f \in Nat /\ g \in Nat /\ h \in Nat /\ k \in Nat
        /\ a + b + d + e + f + g + h + k = 0
    BY Parts
  <2> HIDE DEF a, b, d, e, f, g, h, k
  <2>2. a = 0 /\ b = 0 /\ d = 0 /\ e = 0 /\ f = 0 /\ g = 0 /\ h = 0 /\ k = 0
    BY <2>1
  <2> QED BY <2>2 DEF a, b, d, e, f, g, h, k
<1>2. ~Posted(c) /\ ~Noted(c)
  BY <1>1, EntryCounted DEF TypeInv, Posted, Noted, Ports, Notices
<1>3. recv[c] # "flying" /\ c \notin pins
  BY <1>1 DEF Flights, Pins, Holds
<1>4. ASSUME NEW S \in SUBSET Threads, Cardinality(S) = 0 PROVE S = {}
  BY <1>4, ThreadsAssumption, FS_AddElement, FS_Subset, FS_EmptySet DEF Threads
<1>5. /\ {t \in Apps : c \in held[t]} \in SUBSET Threads
      /\ {t \in Apps : safe[t] = c} \in SUBSET Threads
      /\ {t \in Apps : job[t].con = c} \in SUBSET Threads
      /\ {t \in Threads : rel[t].con = c /\ rel[t].at = "down"} \in SUBSET Threads
  BY DEF Threads
<1>6. \A t \in Apps : c \notin held[t] /\ safe[t] # c /\ job[t].con # c
  BY <1>1, <1>4, <1>5 DEF Walks, Keeps, Posts
<1>7. \A t \in Threads : rel[t].con = c => rel[t].at # "down"
  BY <1>1, <1>4, <1>5 DEF Downs
<1> QED BY <1>2, <1>3, <1>6, <1>7

\* What the hub's close still holds of a connection that is being deleted.
LEMMA FewLeft ==
    ASSUME IInv, NEW c \in Connections, Dead(c)
    PROVE  Holders(c) <= 3
<1>1. TypeInv /\ LastInv(c)
  BY DEF IInv, ConInv
<1>2. \A i \in 1 .. Len(fifo) : fifo[i].con # c
  BY <1>1 DEF LastInv, Noted
<1>3. Notices(c) = 0
  BY <1>1, <1>2, EntryCounted DEF TypeInv, Notices
<1>4. Flights(c) = 0 /\ Pins(c) \in {0, 1}
  BY <1>1 DEF LastInv, Flights, Pins, Holds
<1>5. Walks(c) = 0 /\ Keeps(c) = 0 /\ Posts(c) = 0
  <2>1. /\ {t \in Apps : c \in held[t]} = {}
        /\ {t \in Apps : safe[t] = c} = {}
        /\ {t \in Apps : job[t].con = c} = {}
    BY <1>1 DEF LastInv
  <2> QED BY <2>1, FS_EmptySet DEF Walks, Keeps, Posts
<1>6. Downs(c) <= 1
  <2>1. {t \in Threads : rel[t].con = c /\ rel[t].at = "down"} \in SUBSET {Hub}
    BY <1>1 DEF LastInv, Threads
  <2>2. IsFiniteSet({Hub}) /\ Cardinality({Hub}) = 1
    BY FS_Singleton
  <2> QED BY <2>1, <2>2, FS_Subset DEF Downs
<1>7. Ports(c) <= 1
  <2> DEFINE S == {i \in 1 .. Len(port) : port[i].con = c}
  <2>1. \A i, j \in S : i = j
    BY <1>1 DEF LastInv
  <2>2. S = {} \/ \E i : S = {i}
    BY <2>1
  <2>3. Cardinality(S) \in {0, 1}
    BY <2>2, FS_EmptySet, FS_Singleton
  <2>4. DOMAIN port = 1 .. Len(port)
    BY <1>1, LenProperties DEF TypeInv
  <2>5. Ports(c) \in {0, 1}
    BY <2>3, <2>4 DEF Ports, Count
  <2> QED BY <2>5
<1> QED BY <1>1, <1>3, <1>4, <1>5, <1>6, <1>7, Parts

HoldersNat == \A c \in Connections : Holders(c) \in Nat

LEMMA PartsNext == TypeInv' => HoldersNat'
<1>1. TypeInv => HoldersNat
  BY Parts DEF HoldersNat
<1> QED BY <1>1, PTL

\* Where each step takes as many references as it counts, the counts stay exact and
\* nobody comes back.
Balanced ==
    /\ heap' = heap
    /\ \A c \in Connections : /\ Holders(c)' - Holders(c) = ref'[c] - ref[c]
                              /\ ref'[c] <= ref[c] + 1

LEMMA Counted ==
    ASSUME IInv, TypeInv', Balanced
    PROVE  \A c \in Connections : RefInv(c)' /\ (Dead(c)' <=> Dead(c))
<1> SUFFICES ASSUME NEW c \in Connections PROVE RefInv(c)' /\ (Dead(c)' <=> Dead(c))
  OBVIOUS
<1> DEFINE h == Holders(c)
           k == Holders(c)'
           r == ref[c]
           s == ref'[c]
<1>1. /\ h \in Nat /\ k \in Nat /\ r \in Int /\ s \in Int
      /\ k - h = s - r /\ s <= r + 1 /\ heap' = heap
  BY Parts, PartsNext DEF HoldersNat, IInv, Balanced, TypeInv
<1>2. heap[c] = "live" => IF r < 0 THEN r <= Dying + h ELSE r = h
  BY DEF IInv, ConInv, RefInv
<1>3. Dead(c) => h <= 3
  BY FewLeft
<1>4. (Dead(c) <=> heap[c] = "freed" \/ r < 0) /\ (heap[c] = "freed" <=> heap[c] # "live")
  BY DEF Dead, IInv, TypeInv
<1>5. Dead(c)' <=> heap[c] = "freed" \/ s < 0
  BY <1>1 DEF Dead
<1>6. RefInv(c)' <=> (heap[c] = "live" => IF s < 0 THEN s <= Dying + k ELSE s = k)
  BY <1>1 DEF RefInv, Dying
<1> HIDE DEF h, k, r, s
<1> QED BY <1>1, <1>2, <1>3, <1>4, <1>5, <1>6 DEF Dying

Summed ==
    \A c \in Connections :
        /\ Ports(c) \in Nat /\ Notices(c) \in Nat /\ Flights(c) \in Nat /\ Pins(c) \in Nat
        /\ Walks(c) \in Nat /\ Keeps(c) \in Nat /\ Posts(c) \in Nat /\ Downs(c) \in Nat
        /\ Holders(c) = Ports(c) + Notices(c) + Flights(c) + Pins(c)
                          + Walks(c) + Keeps(c) + Posts(c) + Downs(c)

LEMMA SummedNext == TypeInv' => Summed'
<1>1. TypeInv => Summed
  BY Parts DEF Summed
<1> QED BY <1>1, PTL

\* What the parts gain Holders gains.
LEMMA Shift ==
    ASSUME TypeInv, TypeInv', NEW c \in Connections
    PROVE  /\ Ports(c)' - Ports(c) \in Int /\ Notices(c)' - Notices(c) \in Int
           /\ Flights(c)' - Flights(c) \in Int /\ Pins(c)' - Pins(c) \in Int
           /\ Walks(c)' - Walks(c) \in Int /\ Keeps(c)' - Keeps(c) \in Int
           /\ Posts(c)' - Posts(c) \in Int /\ Downs(c)' - Downs(c) \in Int
           /\ Holders(c)' - Holders(c) =
                (Ports(c)' - Ports(c)) + (Notices(c)' - Notices(c)) + (Flights(c)' - Flights(c))
                  + (Pins(c)' - Pins(c)) + (Walks(c)' - Walks(c)) + (Keeps(c)' - Keeps(c))
                  + (Posts(c)' - Posts(c)) + (Downs(c)' - Downs(c))
<1> DEFINE a1 == Ports(c)   a2 == Notices(c)   a3 == Flights(c)   a4 == Pins(c)
           a5 == Walks(c)   a6 == Keeps(c)     a7 == Posts(c)     a8 == Downs(c)
           b1 == Ports(c)'  b2 == Notices(c)'  b3 == Flights(c)'  b4 == Pins(c)'
           b5 == Walks(c)'  b6 == Keeps(c)'    b7 == Posts(c)'    b8 == Downs(c)'
           a == Holders(c)  b == Holders(c)'
<1>1. /\ a1 \in Nat /\ a2 \in Nat /\ a3 \in Nat /\ a4 \in Nat
      /\ a5 \in Nat /\ a6 \in Nat /\ a7 \in Nat /\ a8 \in Nat
      /\ a = a1 + a2 + a3 + a4 + a5 + a6 + a7 + a8
  BY Parts
<1>2. /\ b1 \in Nat /\ b2 \in Nat /\ b3 \in Nat /\ b4 \in Nat
      /\ b5 \in Nat /\ b6 \in Nat /\ b7 \in Nat /\ b8 \in Nat
      /\ b = b1 + b2 + b3 + b4 + b5 + b6 + b7 + b8
  BY SummedNext DEF Summed
<1> HIDE DEF a1, a2, a3, a4, a5, a6, a7, a8, b1, b2, b3, b4, b5, b6, b7, b8, a, b
<1>3. /\ b1 - a1 \in Int /\ b2 - a2 \in Int /\ b3 - a3 \in Int /\ b4 - a4 \in Int
      /\ b5 - a5 \in Int /\ b6 - a6 \in Int /\ b7 - a7 \in Int /\ b8 - a8 \in Int
      /\ b - a = (b1 - a1) + (b2 - a2) + (b3 - a3) + (b4 - a4)
                   + (b5 - a5) + (b6 - a6) + (b7 - a7) + (b8 - a8)
  BY <1>1, <1>2
<1> QED BY <1>3 DEF a1, a2, a3, a4, a5, a6, a7, a8, b1, b2, b3, b4, b5, b6, b7, b8, a, b

-------------------------------------------------------------------------------
(* What the invariant keeps where a step leaves it alone.                  *)

Steady == heap' = heap /\ \A c \in Connections : Dead(c)' <=> Dead(c)

LEMMA KeepList ==
    ASSUME IInv, Steady, UNCHANGED <<hubList, keyed>>
    PROVE  ListInv' /\ NoTwins'
<1>1. \A i \in 1 .. Len(hubList) : hubList[i] \in Connections /\ heap[hubList[i]] = "live"
  BY LenProperties DEF IInv, TypeInv, ListInv
<1>2. \A i \in 1 .. Len(hubList) : Claimed(hubList[i])' <=> Claimed(hubList[i])
  BY <1>1 DEF Steady, Dead, Claimed
<1>3. DOMAIN hubList = 1 .. Len(hubList)
  BY LenProperties DEF IInv, TypeInv
<1> QED BY <1>2, <1>3 DEF IInv, ListInv, NoTwins, Steady

LEMMA KeepWalk ==
    ASSUME IInv, Steady, UNCHANGED <<hubList, keyed, hub, cursor>>,
           hub # "run" => \A c \in Connections : Dead(c) /\ Posted(c)' => Posted(c)
    PROVE  WalkInv'
BY DEF IInv, WalkInv, Steady, Before

LEMMA KeepJob ==
    ASSUME IInv, Steady, UNCHANGED <<hubList, keyed, section, job, held, offered>>,
           \A t \in Apps : job[t].do \in {"post", "start"} =>
             /\ recv'[job[t].con] = "idle"
             /\ \A i \in 1 .. Len(fifo') : fifo'[i] # [con |-> job[t].con, msg |-> "startup"]
    PROVE  JobInv'
<1>1. \A i \in 1 .. Len(hubList) : hubList[i] \in Connections /\ heap[hubList[i]] = "live"
  BY LenProperties DEF IInv, TypeInv, ListInv
<1>2. \A i \in 1 .. Len(hubList) : Claimed(hubList[i])' <=> Claimed(hubList[i])
  BY <1>1 DEF Steady, Dead, Claimed
<1> QED BY <1>2 DEF IInv, JobInv

\* A Release that is about to delete stays so, whatever the others do.
LEMMA KeepRest ==
    ASSUME IInv, Steady, NEW c \in Connections, c \in offered,
           destroyed'[c] => (destroyed[c] \/ ref'[c] # 0),
           keyed'[c] = keyed[c],
           ref'[c] = ref[c] \/ (ref[c] # 0 /\ ref'[c] # 0) \/ (ref[c] = 0 /\ ref'[c] > 0),
           \A t \in Threads : rel[t].at \in {"look", "claim", "drop"} => rel'[t] = rel[t]
    PROVE  RestInv(c)'
<1>1. RestInv(c) /\ (Dead(c)' <=> Dead(c)) /\ heap' = heap /\ ref[c] \in Int
  BY DEF IInv, ConInv, Steady, TypeInv
<1>2. heap[c] = "live" => (ref'[c] < 0 <=> ref[c] < 0)
  BY <1>1 DEF Dead
<1> QED BY <1>1, <1>2 DEF RestInv
-------------------------------------------------------------------------------
(* Each step.                                                              *)

LEMMA DeliverStep ==
    ASSUME IInv, NEW x \in Connections, Deliver(x)
    PROVE  IInv'
<1> DEFINE e == [con |-> x, op |-> "recv"]
<1>1. /\ e \in Packets /\ port \in Seq(Packets) /\ port' = Append(port, e)
      /\ recv[x] = "flying" /\ recv' = [recv EXCEPT ![x] = "port"] /\ hub # "gone"
      /\ UNCHANGED <<heap, ref, destroyed, bound, open, fifo, regVars, hubVars, appVars, rel, crimes>>
  BY DEF Deliver, Packets, IInv, TypeInv
<1>2. TypeInv'
  BY <1>1, AppendProperties DEF IInv, TypeInv, regVars, hubVars, appVars
<1>3. Balanced
  <2> SUFFICES ASSUME NEW c \in Connections
               PROVE  Holders(c)' - Holders(c) = ref'[c] - ref[c] /\ ref'[c] <= ref[c] + 1
    BY <1>1 DEF Balanced
  <2>1. Ports(c)' - Ports(c) = Is(x, c)
    BY <1>1, PortGains DEF IInv
  <2>2. Flights(c)' - Flights(c) = 0 - Is(x, c)
    BY <1>1 DEF Flights, Is, IInv, TypeInv
  <2>3. /\ Notices(c)' - Notices(c) = 0 /\ Pins(c)' - Pins(c) = 0 /\ Walks(c)' - Walks(c) = 0
        /\ Keeps(c)' - Keeps(c) = 0 /\ Posts(c)' - Posts(c) = 0 /\ Downs(c)' - Downs(c) = 0
    BY <1>1, Same DEF hubVars, appVars, IInv
  <2>4. Holders(c)' - Holders(c) = 0
    BY <1>2, <2>1, <2>2, <2>3, Shift DEF IInv, Is
  <2> QED BY <1>1, <2>4 DEF IInv, TypeInv
<1>4. \A c \in Connections : RefInv(c)' /\ (Dead(c)' <=> Dead(c))
  BY <1>2, <1>3, Counted
<1>5. Steady
  BY <1>1, <1>4 DEF Steady
<1>6. /\ Len(port') = Len(port) + 1 /\ Len(port) \in Nat
      /\ \A i \in 1 .. Len(port) : port'[i] = port[i]
      /\ port'[Len(port) + 1] = e
  BY <1>1, AppendProperties, LenProperties
<1>7. ~Dead(x)
  BY <1>1 DEF IInv, ConInv, LastInv
<1>8. ASSUME NEW c \in Connections PROVE ConInv(c)'
  <2>1. LastInv(c)'
    BY <1>1, <1>4, <1>6, <1>7 DEF IInv, ConInv, LastInv, Posted, Noted, hubVars, appVars, TypeInv
  <2>2. RecvInv(c)'
    BY <1>1, <1>6 DEF IInv, ConInv, RecvInv, TypeInv
  <2>3. FreshInv(c)'
    BY <1>1 DEF IInv, ConInv, FreshInv, regVars, appVars, TypeInv
  <2>4. RestInv(c)'
    BY <1>1, <1>5, KeepRest DEF IInv, ConInv, RestInv, regVars, appVars
  <2> QED BY <1>4, <2>1, <2>2, <2>3, <2>4 DEF ConInv
<1>9. ListInv' /\ NoTwins'
  BY <1>1, <1>5, KeepList DEF regVars
<1>10. RelInv' /\ PhaseInv'
  BY <1>1, <1>4 DEF IInv, RelInv, PhaseInv, regVars, hubVars
<1>11. JobInv'
  BY <1>1, <1>5, KeepJob DEF IInv, JobInv, TypeInv, regVars, appVars
<1>12. WalkInv'
  BY <1>1, <1>5, <1>6, <1>7, KeepWalk DEF regVars, hubVars, Posted
<1> QED BY <1>2, <1>8, <1>9, <1>10, <1>11, <1>12 DEF IInv

\* An application's thread gets on with what it does.
LEMMA ReturnStep ==
    ASSUME IInv, NEW t \in Apps,
           EndWalk(t) \/ RefusePost(t) \/ PostThrows(t) \/ (Leave(t) /\ job[t].con = None)
    PROVE  IInv'
<1>1. UNCHANGED <<heap, ref, destroyed, pumpVars, regVars, hubVars, held, safe, offered, signals,
                  rel, crimes>>
  BY DEF EndWalk, RefusePost, PostThrows, Leave
<1>2. /\ job'[t].con = job[t].con /\ job'[t].do \notin {"post", "start"} /\ job' \in [Apps -> Jobs]
      /\ \A u \in Apps : u # t => job'[u] = job[u]
      /\ \A u \in Apps : job'[u].con = job[u].con
  <2>1. CASE Leave(t) /\ job[t].con = None
    BY <2>1 DEF Leave, IInv, TypeInv, Jobs, Idle
  <2>2. CASE EndWalk(t) \/ RefusePost(t) \/ PostThrows(t)
    <3>1. job' = [job EXCEPT ![t].do = "leave"]
      BY <2>2 DEF EndWalk, RefusePost, PostThrows
    <3> QED BY <3>1 DEF IInv, TypeInv, Jobs
  <2> QED BY <2>1, <2>2
<1>3. TypeInv'
  BY <1>1, <1>2 DEF IInv, TypeInv, pumpVars, regVars, hubVars
<1>4. Balanced
  <2>1. \A c \in Connections : {u \in Apps : job'[u].con = c} = {u \in Apps : job[u].con = c}
    BY <1>2
  <2>2. \A c \in Connections : Holders(c)' = Holders(c)
    BY <1>1, <2>1 DEF Holders, pumpVars, hubVars
  <2>3. \A c \in Connections : Holders(c) \in Nat /\ ref[c] \in Int
    BY Parts DEF IInv, TypeInv
  <2> QED BY <1>1, <2>2, <2>3 DEF Balanced
<1>5. \A c \in Connections : RefInv(c)' /\ (Dead(c)' <=> Dead(c))
  BY <1>3, <1>4, Counted
<1>6. Steady
  BY <1>1, <1>5 DEF Steady
<1>7. ASSUME NEW c \in Connections PROVE ConInv(c)'
  <2>1. LastInv(c)'
    BY <1>1, <1>2, <1>5 DEF IInv, ConInv, LastInv, Posted, Noted, pumpVars, hubVars
  <2>2. RecvInv(c)' /\ FreshInv(c)' /\ RestInv(c)'
    BY <1>1 DEF IInv, ConInv, RecvInv, FreshInv, RestInv, pumpVars, regVars
  <2> QED BY <1>5, <2>1, <2>2 DEF ConInv
<1>8. ListInv' /\ NoTwins'
  BY <1>1, <1>6, KeepList DEF regVars
<1>9. RelInv' /\ PhaseInv'
  BY <1>1, <1>5 DEF IInv, RelInv, PhaseInv, regVars, hubVars
<1>10. JobInv'
  <2>1. CASE Leave(t)
    <3>1. job[t].do = "leave" /\ held[t] = {} /\ job'[t] = Idle
      BY <2>1 DEF Leave, IInv, TypeInv
    <3>2. \A u \in Apps : u # t => job[u].do = "idle"
      BY <3>1 DEF IInv, JobInv
    <3> QED BY <1>1, <1>2, <3>1, <3>2 DEF IInv, JobInv, Idle
  <2>2. CASE EndWalk(t) \/ RefusePost(t) \/ PostThrows(t)
    <3>1. /\ job[t].do \in {"walk", "post", "start"} /\ section' = section
          /\ job'[t].do = "leave"
      BY <2>2 DEF EndWalk, RefusePost, PostThrows, IInv, TypeInv, Jobs
    <3> QED BY <1>1, <1>2, <3>1 DEF IInv, JobInv, Claimed, pumpVars, regVars
  <2> QED BY <2>1, <2>2
<1>11. WalkInv'
  BY <1>1, <1>6, KeepWalk DEF regVars, hubVars, pumpVars, Posted
<1> QED BY <1>3, <1>7, <1>8, <1>9, <1>10, <1>11 DEF IInv

\* The hub's thread gets on with its close.
LEMMA ControlStep ==
    ASSUME IInv, CloseHub \/ Enumerate \/ EndDrain \/ DeleteHub
    PROVE  IInv'
<1>1. UNCHANGED <<heap, ref, destroyed, pumpVars, regVars, pins, appVars, rel, crimes>>
  BY DEF CloseHub, Enumerate, EndDrain, DeleteHub, HubSteps
<1>2. Len(hubList) \in Nat /\ hubList \in [1 .. Len(hubList) -> Connections] /\ DOMAIN hubList = 1 .. Len(hubList)
  BY LenProperties DEF IInv, TypeInv
<1>3. ASSUME Enumerate
      PROVE  \/ hub' = "ended" /\ cursor' = None
             \/ /\ hub' = "signal" /\ cursor' \in Connections /\ keyed[cursor']
                /\ cursor # None => /\ keyed[cursor]
                                    /\ \A c \in Connections : c = cursor \/ Before(c, cursor) => Before(c, cursor')
  <2>1. CASE cursor = None /\ hubList # <<>>
    <3>1. Len(hubList) > 0
      BY <2>1, EmptySeq DEF IInv, TypeInv
    <3>2. cursor' = hubList[1] /\ hubList[1] \in Connections
      BY <1>2, <1>3, <2>1, <3>1, HeadTailProperties DEF Enumerate, NextCon, IInv, TypeInv
    <3>3. keyed[cursor']
      BY <1>2, <3>1, <3>2 DEF IInv, ListInv
    <3> QED BY <1>3, <2>1, <3>2, <3>3, ThreadsAssumption DEF Enumerate, NextCon
  <2>2. CASE ~(cursor = None /\ hubList # <<>>) /\ After(cursor) # {}
    <3>1. PICK i \in After(cursor) : cursor' = hubList[i]
      BY <1>3, <2>2 DEF Enumerate, NextCon
    <3>2. /\ i \in 1 .. Len(hubList) /\ i - 1 \in 1 .. Len(hubList) /\ hubList[i - 1] = cursor
      BY <1>2, <3>1 DEF After
    <3>3. keyed[cursor'] /\ keyed[cursor] /\ cursor' \in Connections
      BY <1>2, <3>1, <3>2 DEF IInv, ListInv
    <3>4. ASSUME NEW c \in Connections, c = cursor \/ Before(c, cursor) PROVE Before(c, cursor')
      <4>1. PICK j \in 1 .. Len(hubList) : hubList[j] = c /\ j <= i - 1
        BY <1>2, <3>2, <3>4 DEF Before, IInv, ListInv
      <4> QED BY <1>1, <1>2, <3>1, <3>2, <4>1 DEF Before, regVars
    <3> QED BY <1>3, <3>3, <3>4, ThreadsAssumption DEF Enumerate, NextCon
  <2>3. CASE ~(cursor = None /\ hubList # <<>>) /\ After(cursor) = {}
    BY <1>3, <2>3 DEF Enumerate, NextCon
  <2> QED BY <2>1, <2>2, <2>3
<1>4. TypeInv'
  BY <1>1, <1>3 DEF IInv, TypeInv, pumpVars, regVars, appVars, CloseHub, EndDrain, DeleteHub, HubSteps, hubVars
<1>5. \A c \in Connections : ConInv(c)'
  <2>1. \A c \in Connections : Holders(c)' = Holders(c)
    BY <1>1 DEF Holders, pumpVars, appVars
  <2>2. hub' # "run"
    BY <1>3 DEF CloseHub, EndDrain, DeleteHub, HubSteps
  <2> QED BY <1>1, <2>1, <2>2 DEF IInv, ConInv, RefInv, LastInv, RecvInv, FreshInv, RestInv,
             Dead, Posted, Noted, pumpVars, regVars, appVars
<1>6. ListInv' /\ NoTwins' /\ RelInv' /\ JobInv'
  BY <1>1 DEF IInv, ListInv, NoTwins, RelInv, JobInv, Claimed, Dead, pumpVars, regVars, appVars
<1>7. PhaseInv'
  BY <1>1, <1>3 DEF IInv, PhaseInv, regVars, CloseHub, EndDrain, DeleteHub, HubSteps, Enumerate
<1>8. WalkInv'
  <2>1. CASE CloseHub
    <3>1. hub = "run" /\ hub' = "signalling" /\ cursor' = None
      BY <2>1 DEF CloseHub, HubSteps
    <3>2. \A c \in Connections : ~(Dead(c) /\ Posted(c))
      BY <3>1 DEF IInv, ConInv, LastInv
    <3> QED BY <1>1, <3>1, <3>2 DEF WalkInv, Dead, Posted, pumpVars
  <2>2. CASE Enumerate
    <3>1. hub = "signalling"
      BY <2>2 DEF Enumerate
    <3>2. \A c \in Connections : Dead(c)' = Dead(c) /\ Posted(c)' = Posted(c)
      BY <1>1 DEF Dead, Posted, pumpVars
    <3>3. \A c : Before(c, cursor)' <=> Before(c, cursor')
      BY <1>1 DEF Before, regVars
    <3>4. CASE hub' = "ended"
      BY <3>4 DEF WalkInv
    <3>5. CASE hub' # "ended"
      <4>1. /\ hub' = "signal" /\ cursor' \in Connections /\ keyed[cursor'] /\ keyed' = keyed
            /\ cursor # None => /\ keyed[cursor]
                                /\ \A c \in Connections : c = cursor \/ Before(c, cursor) => Before(c, cursor)'
        BY <1>1, <1>3, <2>2, <3>3, <3>5 DEF regVars
      <4>2. ASSUME NEW c \in Connections, Dead(c)', Posted(c)', keyed'[c]
            PROVE  Before(c, cursor)'
        BY <3>1, <3>2, <4>1, <4>2 DEF IInv, WalkInv
      <4>3. cursor' # None
        BY <4>1, ThreadsAssumption
      <4> QED BY <4>1, <4>2, <4>3 DEF WalkInv
    <3> QED BY <3>4, <3>5
  <2>3. CASE EndDrain \/ DeleteHub
    BY <2>3 DEF WalkInv, EndDrain, DeleteHub, HubSteps
  <2> QED BY <2>1, <2>2, <2>3
<1> QED BY <1>4, <1>5, <1>6, <1>7, <1>8 DEF IInv

\* A reference goes back from an application's thread: to a Release it is now inside.
LEMMA GiveBackStep ==
    ASSUME IInv, NEW t \in Apps, LetGo(t) \/ DropSafe(t) \/ (Leave(t) /\ job[t].con # None)
    PROVE  IInv'
<1>1. /\ Free(t) /\ t \in Threads /\ t # Hub
      /\ UNCHANGED <<heap, ref, destroyed, pumpVars, regVars, hubVars, offered, signals, crimes>>
  BY ThreadsAssumption DEF LetGo, DropSafe, Leave, Threads
<1>2. PICK x \in Connections :
        /\ rel' = [rel EXCEPT ![t] = Releasing(x)]
        /\ \/ LetGo(t) /\ x \in held[t] /\ held' = [held EXCEPT ![t] = @ \ {x}]
           \/ DropSafe(t) /\ safe[t] = x
           \/ Leave(t) /\ job[t].con = x
  <2>1. CASE LetGo(t)
    <3> DEFINE x == CHOOSE d \in held[t] : TRUE
    <3>1. x \in held[t] /\ x \in Connections
      BY <2>1 DEF LetGo, IInv, TypeInv
    <3> QED BY <2>1, <3>1 DEF LetGo
  <2>2. CASE DropSafe(t)
    BY <2>2 DEF DropSafe, IInv, TypeInv
  <2>3. CASE Leave(t) /\ job[t].con # None
    BY <2>3 DEF Leave, IInv, TypeInv, Jobs
  <2> QED BY <2>1, <2>2, <2>3
<1>3. /\ rel'[t] = Releasing(x) /\ \A u \in Threads : u # t => rel'[u] = rel[u]
      /\ rel[t] = Returned /\ Releasing(x) \in Releases
      /\ Releasing(x).con = x /\ Releasing(x).at = "down"
  BY <1>1, <1>2 DEF IInv, TypeInv, Free, Releasing, Releases
<1>4. /\ held' \in [Apps -> SUBSET Connections] /\ safe' \in [Apps -> Connections \cup {None}]
      /\ job' \in [Apps -> Jobs]
      /\ \A u \in Apps : /\ held'[u] \subseteq held[u] /\ (safe'[u] = safe[u] \/ safe'[u] = None)
                         /\ (job'[u] = job[u] \/ job'[u] = Idle)
  <2>0. Idle \in Jobs
    BY DEF Idle, Jobs
  <2>1. CASE LetGo(t) /\ x \in held[t] /\ held' = [held EXCEPT ![t] = @ \ {x}]
    BY <2>1 DEF LetGo, IInv, TypeInv
  <2>2. CASE DropSafe(t)
    BY <2>2 DEF DropSafe, IInv, TypeInv
  <2>3. CASE Leave(t)
    BY <2>0, <2>3 DEF Leave, IInv, TypeInv
  <2> QED BY <1>2, <2>1, <2>2, <2>3
<1>5. TypeInv'
  BY <1>1, <1>2, <1>3, <1>4 DEF IInv, TypeInv, pumpVars, regVars, hubVars
<1>6. Balanced
  <2> SUFFICES ASSUME NEW c \in Connections
               PROVE  Holders(c)' - Holders(c) = ref'[c] - ref[c] /\ ref'[c] <= ref[c] + 1
    BY <1>1 DEF Balanced
  <2>1. Downs(c)' - Downs(c) = Is(x, c)
    <3>1. Downs(c)' - Downs(c) = IsDown(Releasing(x), c) - IsDown(rel[t], c)
      BY <1>1, <1>2, DownMoves DEF IInv
    <3> QED BY <1>3, <3>1 DEF IsDown, Is, Returned
  <2>2. /\ Ports(c)' - Ports(c) = 0 /\ Notices(c)' - Notices(c) = 0
        /\ Flights(c)' - Flights(c) = 0 /\ Pins(c)' - Pins(c) = 0
    BY <1>1, Same DEF hubVars, pumpVars, IInv
  <2>3. (Walks(c)' - Walks(c)) + (Keeps(c)' - Keeps(c)) + (Posts(c)' - Posts(c)) = 0 - Is(x, c)
    <3>1. CASE LetGo(t) /\ x \in held[t] /\ held' = [held EXCEPT ![t] = @ \ {x}]
      <4>1. Walks(c)' - Walks(c) = Holds(held[t] \ {x}, c) - Holds(held[t], c)
        BY <3>1, WalkMoves DEF IInv
      <4>2. Keeps(c)' - Keeps(c) = 0 /\ Posts(c)' - Posts(c) = 0
        BY <3>1, Same DEF LetGo, IInv
      <4> QED BY <3>1, <4>1, <4>2 DEF Holds, Is
    <3>2. CASE DropSafe(t) /\ safe[t] = x
      <4>1. Keeps(c)' - Keeps(c) = Is(None, c) - Is(safe[t], c)
        BY <3>2, KeepMoves DEF DropSafe, IInv
      <4>2. Walks(c)' - Walks(c) = 0 /\ Posts(c)' - Posts(c) = 0
        BY <3>2, Same DEF DropSafe, IInv
      <4> QED BY <3>2, <4>1, <4>2, ThreadsAssumption DEF Is
    <3>3. CASE Leave(t) /\ job[t].con = x
      <4>1. Posts(c)' - Posts(c) = Is(Idle.con, c) - Is(job[t].con, c)
        BY <3>3, PostMoves DEF Leave, IInv
      <4>2. Walks(c)' - Walks(c) = 0 /\ Keeps(c)' - Keeps(c) = 0
        BY <3>3, Same DEF Leave, IInv
      <4> QED BY <3>3, <4>1, <4>2, ThreadsAssumption DEF Is, Idle
    <3> QED BY <1>2, <3>1, <3>2, <3>3
  <2>4. Holders(c)' - Holders(c) = 0
    BY <1>5, <2>1, <2>2, <2>3, Shift, Same DEF IInv, Is
  <2> QED BY <1>1, <2>4 DEF IInv, TypeInv
<1>7. \A c \in Connections : RefInv(c)' /\ (Dead(c)' <=> Dead(c))
  BY <1>5, <1>6, Counted
<1>8. Steady
  BY <1>1, <1>7 DEF Steady
<1>9. ~Dead(x) /\ x \in offered
  <2>1. ~Dead(x)
    BY <1>2 DEF IInv, ConInv, LastInv
  <2>2. ref[x] # 0
    BY <1>2, <2>1, NoneLeft DEF IInv, ConInv, RefInv, Dead, TypeInv
  <2> QED BY <2>1, <2>2 DEF IInv, ConInv, FreshInv
<1>10. ASSUME NEW c \in Connections PROVE ConInv(c)'
  <2>1. LastInv(c)'
    <3>1. Dead(c) => c # x
      BY <1>9
    <3> QED BY <1>1, <1>3, <1>4, <1>7, <3>1, ThreadsAssumption
         DEF IInv, ConInv, LastInv, Posted, Noted, pumpVars, hubVars, Idle, Threads
  <2>2. RecvInv(c)' /\ FreshInv(c)'
    BY <1>1, <1>3, <1>9 DEF IInv, ConInv, RecvInv, FreshInv, pumpVars, regVars, hubVars
  <2>3. RestInv(c)'
    BY <1>1, <1>3, <1>8, KeepRest DEF IInv, ConInv, RestInv, regVars, hubVars, Returned
  <2> QED BY <1>7, <2>1, <2>2, <2>3 DEF ConInv
<1>11. ListInv' /\ NoTwins'
  BY <1>1, <1>8, KeepList DEF regVars
<1>12. RelInv' /\ PhaseInv'
  BY <1>1, <1>3, <1>7 DEF IInv, RelInv, PhaseInv, regVars, hubVars
<1>13. JobInv'
  <2>1. CASE LetGo(t)
    BY <1>1, <1>4, <2>1 DEF LetGo, IInv, JobInv, Claimed, TypeInv, pumpVars, regVars
  <2>2. CASE DropSafe(t)
    BY <1>1, <2>2 DEF DropSafe, IInv, JobInv, Claimed, pumpVars, regVars
  <2>3. CASE Leave(t)
    BY <1>1, <2>3, ThreadsAssumption DEF Leave, IInv, JobInv, Claimed, TypeInv, Idle, pumpVars, regVars
  <2> QED BY <1>2, <2>1, <2>2, <2>3
<1>14. WalkInv'
  BY <1>1, <1>8, KeepWalk DEF regVars, hubVars, pumpVars, Posted
<1> QED BY <1>5, <1>10, <1>11, <1>12, <1>13, <1>14 DEF IInv

\* The hub's thread lets go of what a message, or its own close, held.
LEMMA LetGoStep ==
    ASSUME IInv, FlushOne \/ Unpin \/ \E drop \in BOOLEAN : DispatchClose(drop)
    PROVE  IInv'
<1>1. /\ Free(Hub) /\ Hub \in Threads /\ Hub \notin Apps
      /\ UNCHANGED <<heap, ref, recv, port, regVars, hub, cursor, appVars, crimes>>
  BY ThreadsAssumption DEF FlushOne, Unpin, DispatchClose, Threads, hubVars, pumpVars
<1>2. PICK x \in Connections :
        /\ rel' = [rel EXCEPT ![Hub] = Releasing(x)]
        /\ \/ /\ fifo # <<>> /\ x = Head(fifo).con /\ fifo' = Tail(fifo) /\ pins' = pins
              /\ FlushOne \/ \E drop \in BOOLEAN : DispatchClose(drop)
           \/ x \in pins /\ pins' = pins \ {x} /\ Unpin
  <2>1. CASE Unpin
    <3> DEFINE x == CHOOSE d \in pins : TRUE
    <3>1. x \in pins /\ x \in Connections
      BY <2>1 DEF Unpin, IInv, TypeInv
    <3> QED BY <2>1, <3>1 DEF Unpin
  <2>2. CASE FlushOne \/ \E drop \in BOOLEAN : DispatchClose(drop)
    <3>1. fifo # <<>>
      BY <2>2 DEF FlushOne, DispatchClose
    <3>2. Head(fifo) \in Notes
      BY <3>1, HeadTailProperties DEF IInv, TypeInv
    <3>3. Head(fifo).con \in Connections
      BY <3>2 DEF Notes
    <3> QED BY <2>2, <3>1, <3>3 DEF FlushOne, DispatchClose, hubVars
  <2> QED BY <2>1, <2>2
<1>3. /\ rel'[Hub] = Releasing(x) /\ \A u \in Threads : u # Hub => rel'[u] = rel[u]
      /\ rel[Hub] = Returned /\ Releasing(x) \in Releases
      /\ Releasing(x).con = x /\ Releasing(x).at = "down"
  BY <1>1, <1>2 DEF IInv, TypeInv, Free, Releasing, Releases
<1>4. /\ Len(fifo) \in Nat /\ fifo' \in Seq(Notes) /\ Len(fifo') <= Len(fifo)
      /\ \/ fifo' = fifo /\ Unpin
         \/ /\ Len(fifo) > 0 /\ fifo[1].con = x /\ Len(fifo') = Len(fifo) - 1
            /\ \A i \in 1 .. Len(fifo') : fifo'[i] = fifo[i + 1]
  <2>1. CASE fifo' = fifo /\ Unpin
    BY <2>1, LenProperties DEF IInv, TypeInv
  <2>2. CASE fifo # <<>> /\ x = Head(fifo).con /\ fifo' = Tail(fifo)
    BY <2>2, HeadTailProperties, EmptySeq DEF IInv, TypeInv
  <2> QED BY <1>2, <2>1, <2>2 DEF Unpin, pumpVars
<1>5. TypeInv'
  <2>1. /\ destroyed' \in [Connections -> BOOLEAN] /\ open' \in [Connections -> BOOLEAN]
        /\ bound' = bound /\ pins' \in SUBSET Connections
    BY <1>2 DEF FlushOne, Unpin, DispatchClose, IInv, TypeInv, pumpVars
  <2> QED BY <1>1, <1>2, <1>3, <1>4, <2>1 DEF IInv, TypeInv, regVars, appVars
<1>6. Balanced
  <2> SUFFICES ASSUME NEW c \in Connections
               PROVE  Holders(c)' - Holders(c) = ref'[c] - ref[c] /\ ref'[c] <= ref[c] + 1
    BY <1>1 DEF Balanced
  <2>1. Downs(c)' - Downs(c) = Is(x, c)
    <3>1. Downs(c)' - Downs(c) = IsDown(Releasing(x), c) - IsDown(rel[Hub], c)
      BY <1>1, <1>2, DownMoves DEF IInv
    <3> QED BY <1>3, <3>1 DEF IsDown, Is, Returned
  <2>2. /\ Ports(c)' - Ports(c) = 0 /\ Flights(c)' - Flights(c) = 0 /\ Walks(c)' - Walks(c) = 0
        /\ Keeps(c)' - Keeps(c) = 0 /\ Posts(c)' - Posts(c) = 0
    BY <1>1, Same DEF appVars, IInv
  <2>3. (Notices(c)' - Notices(c)) + (Pins(c)' - Pins(c)) = 0 - Is(x, c)
    <3>1. CASE fifo # <<>> /\ x = Head(fifo).con /\ fifo' = Tail(fifo) /\ pins' = pins
      <4>1. Notices(c)' - Notices(c) = 0 - Is(x, c) /\ Pins(c)' - Pins(c) = 0
        BY <3>1, FifoLoses, Same DEF IInv
      <4> QED BY <4>1 DEF Is
    <3>2. CASE x \in pins /\ pins' = pins \ {x} /\ Unpin
      <4>1. Notices(c)' - Notices(c) = 0
        BY <3>2, Same DEF Unpin, IInv, pumpVars
      <4>2. Pins(c)' - Pins(c) = 0 - Is(x, c)
        BY <3>2 DEF Pins, Holds, Is
      <4> QED BY <4>1, <4>2 DEF Is
    <3> QED BY <1>2, <3>1, <3>2
  <2>4. Holders(c)' - Holders(c) = 0
    BY <1>5, <2>1, <2>2, <2>3, Shift DEF IInv, Is
  <2> QED BY <1>1, <2>4 DEF IInv, TypeInv
<1>7. \A c \in Connections : RefInv(c)' /\ (Dead(c)' <=> Dead(c))
  BY <1>5, <1>6, Counted
<1>8. Steady
  BY <1>1, <1>7 DEF Steady
<1>9. /\ hub = "run" => ~Dead(x)
      /\ Noted(x) => ~Dead(x)
      /\ x \in offered /\ (ref[x] = 0 => heap[x] = "freed")
  <2>1. (hub = "run" => x \notin pins) /\ (x \notin pins => Noted(x))
    BY <1>2, <1>4 DEF IInv, PhaseInv, Noted
  <2>2. Noted(x) => ~Dead(x)
    BY DEF IInv, ConInv, LastInv
  <2>3. ref[x] = 0 => heap[x] = "freed"
    BY <2>1, NoneLeft DEF IInv, ConInv, RefInv, Dead, TypeInv
  <2> QED BY <2>1, <2>2, <2>3 DEF IInv, ConInv, FreshInv
<1>10. \A c : Noted(c)' => Noted(c)
  BY <1>4 DEF Noted
<1>11. ASSUME NEW c \in Connections PROVE ConInv(c)'
  <2>1. LastInv(c)'
    <3> SUFFICES ASSUME Dead(c)' PROVE LastInv(c)'
      BY DEF LastInv
    <3>1. Dead(c) /\ LastInv(c) /\ (hub = "run" => c # x)
      BY <1>7, <1>9 DEF IInv, ConInv
    <3>2. /\ UNCHANGED <<recv, port, hub, held, safe, job>>
          /\ \A t \in Apps : rel'[t] = rel[t]
      BY <1>1, <1>3 DEF appVars, Threads
    <3>3. hub = "run" => (rel'[Hub].con = c => rel'[Hub].at # "down")
      BY <1>3, <3>1
    <3>4. Posted(c)' <=> Posted(c)
      BY <3>2 DEF Posted
    <3>5. ~Noted(c)'
      BY <1>10, <3>1 DEF LastInv
    <3>6. ~Noted(c)' /\ recv'[c] # "flying"
      BY <3>1, <3>2, <3>5 DEF LastInv
    <3>7. \A t \in Apps : /\ c \notin held'[t] /\ safe'[t] # c /\ job'[t].con # c
                          /\ rel'[t].con = c => rel'[t].at # "down"
      <4> SUFFICES ASSUME NEW t \in Apps
                   PROVE  /\ c \notin held'[t] /\ safe'[t] # c /\ job'[t].con # c
                          /\ rel'[t].con = c => rel'[t].at # "down"
        OBVIOUS
      <4>1. /\ c \notin held[t] /\ safe[t] # c /\ job[t].con # c
            /\ rel[t].con = c => rel[t].at # "down"
        BY <3>1 DEF LastInv
      <4> QED BY <3>2, <4>1
    <3>8. \A i, j \in 1 .. Len(port') : port'[i].con = c /\ port'[j].con = c => i = j
      BY <3>1, <3>2 DEF LastInv
    <3>9. hub' = "run" => ~Posted(c)' /\ (rel'[Hub].con = c => rel'[Hub].at # "down")
      BY <3>1, <3>2, <3>3, <3>4 DEF LastInv
    <3> QED BY <3>6, <3>7, <3>8, <3>9 DEF LastInv
  <2>2. RecvInv(c)'
    <3>1. RecvInv(c) /\ UNCHANGED <<port, recv>>
      BY <1>1 DEF IInv, ConInv
    <3>2. \A i \in 1 .. Len(port') : port'[i].con = c /\ port'[i].op = "recv" =>
            /\ recv'[c] = "port"
            /\ \A j \in 1 .. Len(port') : port'[j].con = c /\ port'[j].op = "recv" => i = j
      BY <3>1 DEF RecvInv
    <3>3. ASSUME NEW i \in 1 .. Len(fifo'), fifo'[i] = [con |-> c, msg |-> "startup"]
          PROVE  /\ recv'[c] = "idle"
                 /\ \A j \in 1 .. Len(fifo') : fifo'[j] = [con |-> c, msg |-> "startup"] => i = j
      <4>1. CASE fifo' = fifo
        BY <3>1, <3>3, <4>1 DEF RecvInv
      <4>2. CASE /\ Len(fifo) > 0 /\ Len(fifo') = Len(fifo) - 1
                 /\ \A k \in 1 .. Len(fifo') : fifo'[k] = fifo[k + 1]
        <5>1. i + 1 \in 1 .. Len(fifo) /\ fifo[i + 1] = [con |-> c, msg |-> "startup"]
          BY <1>4, <3>3, <4>2
        <5>2. ASSUME NEW j \in 1 .. Len(fifo'), fifo'[j] = [con |-> c, msg |-> "startup"]
              PROVE  i = j
          <6>1. j + 1 \in 1 .. Len(fifo) /\ fifo[j + 1] = [con |-> c, msg |-> "startup"]
            BY <1>4, <4>2, <5>2
          <6>2. i + 1 = j + 1
            BY <3>1, <5>1, <6>1 DEF RecvInv
          <6> QED BY <1>4, <6>2
        <5> QED BY <3>1, <5>1, <5>2 DEF RecvInv
      <4> QED BY <1>4, <4>1, <4>2
    <3> QED BY <3>2, <3>3 DEF RecvInv
  <2>4. FreshInv(c)'
    BY <1>1, <1>3, <1>9 DEF IInv, ConInv, FreshInv, regVars, appVars
  <2>3. RestInv(c)'
    <3>1. heap[c] = "live" => (destroyed'[c] => destroyed[c] \/ ref'[c] # 0)
      <4>1. CASE c = x
        BY <1>1, <1>9, <4>1
      <4>2. CASE c # x
        BY <1>2, <4>2 DEF FlushOne, Unpin, DispatchClose, IInv, TypeInv
      <4> QED BY <4>1, <4>2
    <3> QED BY <1>1, <1>3, <1>8, <3>1, KeepRest DEF IInv, ConInv, RestInv, regVars, appVars, Returned
  <2> QED BY <1>7, <2>1, <2>2, <2>3, <2>4 DEF ConInv
<1>12. ListInv' /\ NoTwins'
  BY <1>1, <1>8, KeepList DEF regVars
<1>13. RelInv'
  BY <1>1, <1>3, <1>7 DEF IInv, RelInv
<1>14. PhaseInv'
  <2>1. \A c \in Connections : destroyed[c] => destroyed'[c]
    <3>1. destroyed \in [Connections -> BOOLEAN]
      BY DEF IInv, TypeInv
    <3>2. destroyed' = destroyed \/ \E y, b : destroyed' = [destroyed EXCEPT ![y] = @ \/ b]
      BY DEF FlushOne, Unpin, DispatchClose
    <3> QED BY <3>1, <3>2
  <2>2. pins' = pins \/ (hub = "unpinning" /\ pins' \subseteq pins)
    BY <1>2 DEF Unpin
  <2>3. hub' = hub /\ keyed' = keyed
    BY <1>1 DEF regVars
  <2>4. PhaseInv
    BY DEF IInv
  <2>5. hub \in {"run", "signalling", "signal", "ended"} => pins' = {}
    BY <2>2, <2>4 DEF PhaseInv
  <2>6. hub = "pinned" => \A c \in Connections : keyed[c] => c \in pins'
    BY <2>2, <2>4 DEF PhaseInv
  <2>7. hub \in {"draining", "unpinning", "gone"} => \A c \in Connections : keyed[c] => destroyed'[c]
    BY <2>1, <2>4 DEF PhaseInv
  <2> QED BY <2>3, <2>5, <2>6, <2>7 DEF PhaseInv
<1>15. JobInv'
  <2>1. UNCHANGED <<section, job, held, keyed, hubList, recv, offered>>
    BY <1>1 DEF regVars, appVars
  <2>2. \A i \in 1 .. Len(fifo') : \E k \in 1 .. Len(fifo) : fifo'[i] = fifo[k]
    BY <1>4
  <2>3. \A t \in Apps : job[t].do \in {"post", "start"} =>
          /\ recv[job[t].con] = "idle"
          /\ \A i \in 1 .. Len(fifo) : fifo[i] # [con |-> job[t].con, msg |-> "startup"]
    BY DEF IInv, JobInv
  <2>4. \A t \in Apps : job[t].do \in {"post", "start"} =>
          /\ recv'[job[t].con] = "idle"
          /\ \A i \in 1 .. Len(fifo') : fifo'[i] # [con |-> job[t].con, msg |-> "startup"]
    BY <2>1, <2>2, <2>3
  <2> QED BY <1>8, <2>1, <2>4, KeepJob
<1>16. WalkInv'
  BY <1>1, <1>8, KeepWalk DEF regVars, Posted
<1> QED BY <1>5, <1>11, <1>12, <1>13, <1>14, <1>15, <1>16 DEF IInv

\* The hub's thread takes a packet off the port, to serve it or to drain it.
LEMMA PacketStep ==
    ASSUME IInv, Complete \/ Drain
    PROVE  IInv'
<1> DEFINE p == Head(port)
           x == p.con
           note == [con |-> x, msg |-> "close"]
<1>1. /\ Free(Hub) /\ Hub \in Threads /\ Hub \notin Apps
      /\ hub' = hub /\ hub \in {"run", "draining"} /\ (Complete => hub = "run")
      /\ port # <<>> /\ port' = Tail(port) /\ rel' = [rel EXCEPT ![Hub] = Releasing(x)]
      /\ UNCHANGED <<heap, bound, regVars, cursor, pins, appVars, crimes>>
  BY ThreadsAssumption DEF Complete, Completes, CompleteRead, CompleteFailed, CompleteCancelled,
     CompleteClose, CompleteDestroy, Drain, Threads, hubVars
<1>2. /\ p \in Packets /\ Len(port) \in Nat /\ Len(port) > 0 /\ p = port[1]
      /\ port' \in Seq(Packets) /\ Len(port') = Len(port) - 1
      /\ \A i \in 1 .. Len(port') : port'[i] = port[i + 1]
  BY <1>1, HeadTailProperties, EmptySeq, LenProperties DEF IInv, TypeInv
<1>3. x \in Connections /\ note \in Notes /\ Posted(x)
  BY <1>2 DEF Packets, Notes, Posted
<1> HIDE DEF p, x
<1>4. p.op = "recv" => recv[x] = "port"
  <2>1. 1 \in 1 .. Len(port) /\ port[1].con = x /\ port[1].op = p.op
    BY <1>2 DEF x
  <2>2. RecvInv(x)
    BY <1>3 DEF IInv, ConInv
  <2> QED BY <2>1, <2>2 DEF RecvInv
<1>5. (p.op = "recv" /\ recv' = [recv EXCEPT ![x] = "idle"]) \/ (p.op # "recv" /\ recv' = recv)
        \/ CompleteRead
  BY DEF Complete, Completes, CompleteFailed, CompleteCancelled, CompleteClose, CompleteDestroy,
     Drain, p, x
<1>6. \/ ref' = ref /\ fifo' = fifo /\ ~CompleteRead
      \/ ref' = [ref EXCEPT ![x] = @ + 1] /\ fifo' = Append(fifo, note) /\ ~CompleteRead /\ hub = "run"
      \/ /\ CompleteRead /\ ref' = [ref EXCEPT ![x] = @ + 1] /\ fifo' = fifo
         /\ recv' = [recv EXCEPT ![x] = "flying"] /\ p.op = "recv"
  <2>1. CASE CompleteRead
    BY <2>1 DEF Complete, Completes, CompleteRead, p, x
  <2>2. CASE ~CompleteRead
    <3>1. \/ ref' = [ref EXCEPT ![x] = @ + 0] /\ fifo' = fifo
          \/ ref' = ref /\ fifo' = fifo
          \/ ref' = [ref EXCEPT ![x] = @ + 1] /\ fifo' = Append(fifo, note) /\ hub = "run"
      BY <2>2 DEF Complete, Completes, CompleteFailed, CompleteCancelled, CompleteClose,
         CompleteDestroy, Drain, Notified, p, x
    <3>2. ref = [ref EXCEPT ![x] = @ + 0]
      BY <1>3 DEF IInv, TypeInv
    <3> QED BY <2>2, <3>1, <3>2
  <2> QED BY <2>1, <2>2
<1>7. /\ destroyed' \in [Connections -> BOOLEAN] /\ open' \in [Connections -> BOOLEAN]
      /\ \A c \in Connections : destroyed[c] => destroyed'[c]
      /\ \A c \in Connections : destroyed'[c] => destroyed[c] \/ (c = x /\ fifo' = Append(fifo, note))
  BY DEF Complete, CompleteRead, CompleteFailed, CompleteCancelled, CompleteClose, CompleteDestroy,
     Drain, Notified, IInv, TypeInv, x, p
<1>8. /\ rel'[Hub] = Releasing(x) /\ \A u \in Threads : u # Hub => rel'[u] = rel[u]
      /\ rel[Hub] = Returned /\ Releasing(x) \in Releases
      /\ Releasing(x).con = x /\ Releasing(x).at = "down"
  BY <1>1, <1>3 DEF IInv, TypeInv, Free, Releasing, Releases
<1>9. /\ Len(fifo) \in Nat /\ fifo' \in Seq(Notes)
      /\ \/ fifo' = fifo
         \/ /\ Len(fifo') = Len(fifo) + 1 /\ fifo'[Len(fifo) + 1] = note /\ hub = "run"
            /\ \A i \in 1 .. Len(fifo) : fifo'[i] = fifo[i]
  <2>1. fifo \in Seq(Notes) /\ Len(fifo) \in Nat
    BY LenProperties DEF IInv, TypeInv
  <2>2. CASE fifo' = Append(fifo, note) /\ hub = "run"
    BY <1>3, <2>1, <2>2, AppendProperties
  <2> QED BY <1>6, <2>1, <2>2
<1>10. TypeInv'
  <2>1. recv' \in [Connections -> {"idle", "flying", "port"}] /\ ref' \in [Connections -> Int]
    <3>1. /\ recv \in [Connections -> {"idle", "flying", "port"}] /\ ref \in [Connections -> Int]
          /\ recv' = recv \/ recv' = [recv EXCEPT ![x] = "idle"] \/ recv' = [recv EXCEPT ![x] = "flying"]
          /\ ref' = ref \/ ref' = [ref EXCEPT ![x] = @ + 1]
      BY <1>5, <1>6 DEF IInv, TypeInv
    <3> QED BY <1>3, <3>1
  <2> QED BY <1>1, <1>2, <1>7, <1>8, <1>9, <2>1 DEF IInv, TypeInv, regVars, appVars
<1>11. Balanced
  <2> SUFFICES ASSUME NEW c \in Connections
               PROVE  Holders(c)' - Holders(c) = ref'[c] - ref[c] /\ ref'[c] <= ref[c] + 1
    BY <1>1 DEF Balanced
  <2>1. Downs(c)' - Downs(c) = Is(x, c)
    <3>1. Downs(c)' - Downs(c) = IsDown(Releasing(x), c) - IsDown(rel[Hub], c)
      BY <1>1, DownMoves DEF IInv
    <3> QED BY <1>8, <3>1 DEF IsDown, Is, Returned
  <2>2. Ports(c)' - Ports(c) = 0 - Is(x, c)
    BY <1>1, PortLoses DEF IInv, x, p
  <2>3. /\ Pins(c)' - Pins(c) = 0 /\ Walks(c)' - Walks(c) = 0
        /\ Keeps(c)' - Keeps(c) = 0 /\ Posts(c)' - Posts(c) = 0
    BY <1>1, Same DEF appVars, IInv
  <2>4. CASE CompleteRead
    <3>1. Flights(c)' - Flights(c) = Is(x, c)
      BY <1>3, <1>4, <1>6, <2>4 DEF Flights, Is, IInv, TypeInv
    <3>2. Notices(c)' - Notices(c) = 0
      BY <1>6, <2>4, Same DEF IInv
    <3>3. Holders(c)' - Holders(c) = Is(x, c)
      BY <1>10, <2>1, <2>2, <2>3, <3>1, <3>2, Shift DEF IInv, Is
    <3> QED BY <1>3, <1>6, <2>4, <3>3 DEF IInv, TypeInv, Is
  <2>5. CASE ~CompleteRead
    <3>1. Flights(c)' - Flights(c) = 0
      BY <1>3, <1>4, <1>5, <2>5 DEF Flights, IInv, TypeInv
    <3>2. CASE ref' = ref /\ fifo' = fifo
      <4>1. Notices(c)' - Notices(c) = 0
        BY <3>2, Same DEF IInv
      <4>2. Holders(c)' - Holders(c) = 0
        BY <1>10, <2>1, <2>2, <2>3, <3>1, <4>1, Shift DEF IInv, Is
      <4> QED BY <3>2, <4>2 DEF IInv, TypeInv
    <3>3. CASE ref' = [ref EXCEPT ![x] = @ + 1] /\ fifo' = Append(fifo, note)
      <4>1. Notices(c)' - Notices(c) = Is(x, c)
        BY <1>3, <3>3, FifoGains DEF IInv
      <4>2. Holders(c)' - Holders(c) = Is(x, c)
        BY <1>10, <2>1, <2>2, <2>3, <3>1, <4>1, Shift DEF IInv, Is
      <4> QED BY <1>3, <3>3, <4>2 DEF IInv, TypeInv, Is
    <3> QED BY <1>6, <2>5, <3>2, <3>3
  <2> QED BY <2>4, <2>5
<1>12. \A c \in Connections : RefInv(c)' /\ (Dead(c)' <=> Dead(c))
  BY <1>10, <1>11, Counted
<1>13. Steady
  BY <1>1, <1>12 DEF Steady
<1>14. /\ hub = "run" => ~Dead(x)
       /\ x \in offered /\ (~Dead(x) => ref[x] > 0)
  <2>1. hub = "run" => ~Dead(x)
    BY <1>3 DEF IInv, ConInv, LastInv
  <2>2. ~Dead(x) => ref[x] # 0 /\ ref[x] \in Int /\ ~(ref[x] < 0)
    BY <1>3, NoneLeft DEF IInv, ConInv, RefInv, Dead, TypeInv
  <2>3. heap[x] = "live" /\ ref[x] = 0 => ~Dead(x)
    BY DEF Dead
  <2> QED BY <1>3, <2>1, <2>2, <2>3 DEF IInv, ConInv, FreshInv
<1>15. ASSUME NEW c \in Connections PROVE ConInv(c)'
  <2>1. LastInv(c)'
    <3>1. CASE Dead(c)
      <4>1. recv[c] # "flying" /\ ~Noted(c) /\ (hub = "run" => c # x)
        BY <1>14, <3>1 DEF IInv, ConInv, LastInv
      <4>2. recv'[c] # "flying"
        BY <1>1, <1>3, <1>5, <1>6, <4>1 DEF IInv, TypeInv, Complete
      <4>3. ~Noted(c)'
        BY <1>9, <4>1 DEF Noted
      <4>4. LastInv(c) /\ hub' = hub /\ UNCHANGED <<held, safe, job>>
        BY <1>1 DEF IInv, ConInv, appVars
      <4>5. \A i, j \in 1 .. Len(port') : port'[i].con = c /\ port'[j].con = c => i = j
        <5> SUFFICES ASSUME NEW i \in 1 .. Len(port'), NEW j \in 1 .. Len(port'),
                            port'[i].con = c, port'[j].con = c
                     PROVE  i = j
          OBVIOUS
        <5>1. /\ i + 1 \in 1 .. Len(port) /\ j + 1 \in 1 .. Len(port)
              /\ port[i + 1].con = c /\ port[j + 1].con = c
          BY <1>2
        <5>2. i + 1 = j + 1
          BY <3>1, <4>4, <5>1 DEF LastInv
        <5> QED BY <1>2, <5>2
      <4>6. Posted(c)' => Posted(c)
        BY <1>2 DEF Posted
      <4>7. \A t \in Apps : rel'[t] = rel[t]
        BY <1>1, <1>8 DEF Threads
      <4> QED BY <1>8, <3>1, <4>1, <4>2, <4>3, <4>4, <4>5, <4>6, <4>7 DEF LastInv
    <3>2. CASE ~Dead(c)
      BY <1>12, <3>2 DEF LastInv
    <3> QED BY <3>1, <3>2
  <2>2. RecvInv(c)'
    <3>1. ASSUME NEW i \in 1 .. Len(port'), port'[i].con = c, port'[i].op = "recv"
          PROVE  /\ recv'[c] = "port"
                 /\ \A j \in 1 .. Len(port') : port'[j].con = c /\ port'[j].op = "recv" => i = j
      <4>1. /\ i + 1 \in 1 .. Len(port) /\ 1 \in 1 .. Len(port) /\ port[i + 1].con = c
            /\ port[i + 1].op = "recv" /\ i + 1 # 1
        BY <1>2, <3>1
      <4>2. ~(p.op = "recv" /\ c = x) /\ recv[c] = "port"
        <5>1. RecvInv(c)
          BY DEF IInv, ConInv
        <5>2. p = port[1]
          BY <1>2
        <5> QED BY <4>1, <5>1, <5>2 DEF RecvInv, x
      <4>3. recv'[c] = recv[c]
        BY <1>3, <1>5, <1>6, <4>2 DEF IInv, TypeInv
      <4>4. ASSUME NEW j \in 1 .. Len(port'), port'[j].con = c, port'[j].op = "recv" PROVE i = j
        <5>1. j + 1 \in 1 .. Len(port) /\ port[j + 1].con = c /\ port[j + 1].op = "recv"
          BY <1>2, <4>4
        <5>2. RecvInv(c)
          BY DEF IInv, ConInv
        <5>3. i + 1 = j + 1
          BY <4>1, <5>1, <5>2 DEF RecvInv
        <5> QED BY <1>2, <5>3
      <4> QED BY <4>2, <4>3, <4>4
    <3>2. ASSUME NEW i \in 1 .. Len(fifo'), fifo'[i] = [con |-> c, msg |-> "startup"]
          PROVE  /\ recv'[c] = "idle"
                 /\ \A j \in 1 .. Len(fifo') : fifo'[j] = [con |-> c, msg |-> "startup"] => i = j
      <4>1. \A j \in 1 .. Len(fifo') : fifo'[j] = [con |-> c, msg |-> "startup"] =>
              j \in 1 .. Len(fifo) /\ fifo[j] = fifo'[j]
        BY <1>9
      <4>2. recv[c] = "idle"
        BY <3>2, <4>1 DEF IInv, ConInv, RecvInv
      <4>3. recv'[c] = "idle"
        BY <1>3, <1>4, <1>5, <1>6, <4>2 DEF IInv, TypeInv
      <4> QED BY <3>2, <4>1, <4>3 DEF IInv, ConInv, RecvInv
    <3> QED BY <3>1, <3>2 DEF RecvInv
  <2>3. FreshInv(c)'
    <3>1. c \notin offered => ref'[c] = ref[c] /\ recv'[c] = recv[c]
      BY <1>3, <1>5, <1>6, <1>14 DEF IInv, TypeInv
    <3> QED BY <1>1, <1>8, <1>14, <3>1 DEF IInv, ConInv, FreshInv, regVars, appVars
  <2>4. RestInv(c)'
    <3>1. ref'[c] = ref[c] \/ (c = x /\ hub = "run" /\ ref'[c] = ref[c] + 1)
      BY <1>3, <1>6 DEF CompleteRead, Completes, IInv, TypeInv
    <3>2. ref'[c] = ref[c] \/ (ref[c] # 0 /\ ref'[c] # 0)
      BY <1>14, <3>1 DEF IInv, TypeInv
    <3>3. destroyed'[c] => destroyed[c] \/ ref'[c] # 0
      BY <1>3, <1>6, <1>7, <1>9, <1>14, <3>1, <3>2 DEF IInv, TypeInv
    <3>4. \A t \in Threads : rel[t].at \in {"look", "claim", "drop"} => rel'[t] = rel[t]
      BY <1>8 DEF Returned
    <3>5. keyed' = keyed /\ offered' = offered
      BY <1>1 DEF regVars, appVars
    <3>6. CASE c \in offered
      <4>1. /\ keyed'[c] = keyed[c]
            /\ ref'[c] = ref[c] \/ (ref[c] # 0 /\ ref'[c] # 0) \/ (ref[c] = 0 /\ ref'[c] > 0)
        BY <3>2, <3>5
      <4> QED BY <1>13, <3>3, <3>4, <3>6, <4>1, KeepRest
    <3> QED BY <3>5, <3>6 DEF RestInv
  <2> QED BY <1>12, <2>1, <2>2, <2>3, <2>4 DEF ConInv
<1>16. ListInv' /\ NoTwins'
  BY <1>1, <1>13, KeepList DEF regVars
<1>17. RelInv' /\ PhaseInv' /\ WalkInv'
  BY <1>1, <1>3, <1>7, <1>8, <1>12 DEF IInv, RelInv, PhaseInv, WalkInv, regVars
<1>18. JobInv'
  <2>1. ASSUME NEW t \in Apps, job[t].do \in {"post", "start"}
        PROVE  /\ recv'[job[t].con] = "idle"
               /\ \A i \in 1 .. Len(fifo') : fifo'[i] # [con |-> job[t].con, msg |-> "startup"]
    <3>1. /\ recv[job[t].con] = "idle" /\ job[t].con \in Connections
          /\ \A i \in 1 .. Len(fifo) : fifo[i] # [con |-> job[t].con, msg |-> "startup"]
      BY <2>1 DEF IInv, JobInv, TypeInv, Jobs
    <3>2. recv'[job[t].con] = "idle"
      BY <1>3, <1>4, <1>5, <1>6, <3>1 DEF IInv, TypeInv
    <3> QED BY <1>9, <3>1, <3>2
  <2> QED BY <1>1, <1>13, <2>1, KeepJob DEF regVars, appVars
<1> QED BY <1>10, <1>15, <1>16, <1>17, <1>18 DEF IInv

\* Whoever holds a connection holds one that is not being deleted.
LEMMA HeldIsLive ==
    ASSUME IInv, NEW c \in Connections, NEW t \in Apps,
           c \in held[t] \/ safe[t] = c \/ job[t].con = c
    PROVE  ~Dead(c) /\ heap[c] = "live" /\ ref[c] > 0 /\ c \in offered
<1>1. ~Dead(c)
  BY DEF IInv, ConInv, LastInv
<1>2. heap[c] = "live" /\ ref[c] \in Int /\ ~(ref[c] < 0)
  BY <1>1 DEF Dead, IInv, TypeInv
<1>3. ref[c] # 0
  BY <1>2, NoneLeft DEF IInv, ConInv, RefInv
<1> QED BY <1>1, <1>2, <1>3 DEF IInv, ConInv, FreshInv

LEMMA KeepStep ==
    ASSUME IInv, NEW t \in Apps, NEW x \in Connections, Keep(t, x)
    PROVE  IInv'
<1>1. /\ x \in held[t] /\ safe[t] = None /\ safe' = [safe EXCEPT ![t] = x]
      /\ ref' = [ref EXCEPT ![x] = @ + 1]
      /\ UNCHANGED <<heap, destroyed, pumpVars, regVars, hubVars, section, job, held, offered,
                     signals, rel, crimes>>
  BY DEF Keep
<1>2. /\ ref' \in [Connections -> Int] /\ ref'[x] = ref[x] + 1
      /\ \A c \in Connections : c # x => ref'[c] = ref[c]
      /\ safe' \in [Apps -> Connections \cup {None}] /\ safe'[t] = x
      /\ \A u \in Apps : u # t => safe'[u] = safe[u]
  BY <1>1 DEF IInv, TypeInv
<1>3. TypeInv'
  BY <1>1, <1>2 DEF IInv, TypeInv, pumpVars, regVars, hubVars
<1>4. Balanced
  <2> SUFFICES ASSUME NEW c \in Connections
               PROVE  Holders(c)' - Holders(c) = ref'[c] - ref[c] /\ ref'[c] <= ref[c] + 1
    BY <1>1 DEF Balanced
  <2>1. Keeps(c)' - Keeps(c) = Is(x, c)
    <3>1. Keeps(c)' - Keeps(c) = Is(x, c) - Is(safe[t], c)
      BY <1>1, KeepMoves DEF IInv
    <3> QED BY <1>1, <3>1, ThreadsAssumption DEF Is
  <2>2. /\ Ports(c)' - Ports(c) = 0 /\ Notices(c)' - Notices(c) = 0
        /\ Flights(c)' - Flights(c) = 0 /\ Pins(c)' - Pins(c) = 0 /\ Walks(c)' - Walks(c) = 0
        /\ Posts(c)' - Posts(c) = 0 /\ Downs(c)' - Downs(c) = 0
    BY <1>1, Same DEF hubVars, pumpVars, IInv
  <2>3. Holders(c)' - Holders(c) = Is(x, c)
    BY <1>3, <2>1, <2>2, Shift DEF IInv, Is
  <2>4. ref'[c] - ref[c] = Is(x, c) /\ ref[c] \in Int /\ ref'[c] \in Int
    BY <1>2 DEF Is, IInv, TypeInv
  <2> QED BY <2>3, <2>4 DEF Is
<1>5. \A c \in Connections : RefInv(c)' /\ (Dead(c)' <=> Dead(c))
  BY <1>3, <1>4, Counted
<1>6. Steady
  BY <1>1, <1>5 DEF Steady
<1>7. ~Dead(x) /\ ref[x] > 0 /\ x \in offered
  BY <1>1, HeldIsLive
<1>8. ASSUME NEW c \in Connections PROVE ConInv(c)'
  <2>1. LastInv(c)'
    BY <1>1, <1>2, <1>5, <1>7 DEF IInv, ConInv, LastInv, Posted, Noted, pumpVars, hubVars
  <2>2. RecvInv(c)' /\ FreshInv(c)'
    BY <1>1, <1>2, <1>7 DEF IInv, ConInv, RecvInv, FreshInv, pumpVars, regVars
  <2>3. CASE c \in offered
    <3>1. ref'[c] = ref[c] \/ (ref[c] # 0 /\ ref'[c] # 0)
      BY <1>2, <1>7 DEF IInv, TypeInv
    <3> QED BY <1>1, <1>5, <1>6, <2>1, <2>2, <2>3, <3>1, KeepRest DEF regVars, ConInv
  <2>4. CASE c \notin offered
    BY <1>1, <1>5, <2>1, <2>2, <2>4 DEF RestInv, ConInv
  <2> QED BY <2>3, <2>4
<1>9. ListInv' /\ NoTwins'
  BY <1>1, <1>6, KeepList DEF regVars
<1>10. RelInv' /\ PhaseInv'
  BY <1>1, <1>5 DEF IInv, RelInv, PhaseInv, regVars, hubVars
<1>11. JobInv'
  BY <1>1, <1>6, KeepJob DEF IInv, JobInv, regVars, pumpVars
<1>12. WalkInv'
  BY <1>1, <1>6, KeepWalk DEF regVars, hubVars, pumpVars, Posted
<1> QED BY <1>3, <1>8, <1>9, <1>10, <1>11, <1>12 DEF IInv

\* A signal on the port, of an application that holds the connection.
LEMMA SignalStep ==
    ASSUME IInv, NEW t \in Apps, NEW x \in Connections, NEW s \in Signals, SignalOne(t, x, s)
    PROVE  IInv'
<1> DEFINE e == [con |-> x, op |-> s]
<1>0. /\ x \in held[t]
      /\ UNCHANGED <<heap, destroyed, bound, open, recv, fifo, regVars, hubVars, section, job, held,
                     safe, offered, rel, crimes>>
  BY DEF SignalOne
<1>1. CASE port' = port /\ ref' = ref
  <2>1. TypeInv'
    BY <1>0, <1>1 DEF IInv, TypeInv, regVars, hubVars
  <2>2. \A c \in Connections : Holders(c)' = Holders(c)
    BY <1>0, <1>1 DEF Holders, hubVars
  <2> QED BY <1>0, <1>1, <2>1, <2>2 DEF IInv, ConInv, RefInv, LastInv, RecvInv, FreshInv, RestInv,
       Dead, Posted, Noted, ListInv, NoTwins, Claimed, RelInv, JobInv, PhaseInv, WalkInv, Before,
       regVars, hubVars
<1>2. CASE port' = Append(port, e) /\ ref' = [ref EXCEPT ![x] = @ + 1]
  <2>1. /\ ref' \in [Connections -> Int] /\ ref'[x] = ref[x] + 1
        /\ \A c \in Connections : c # x => ref'[c] = ref[c]
        /\ e \in Packets /\ port \in Seq(Packets) /\ s # "recv"
    BY <1>2 DEF IInv, TypeInv, Packets, Signals
  <2>2. /\ Len(port') = Len(port) + 1 /\ Len(port) \in Nat /\ port' \in Seq(Packets)
        /\ \A i \in 1 .. Len(port) : port'[i] = port[i]
        /\ port'[Len(port) + 1] = e
    BY <1>2, <2>1, AppendProperties, LenProperties
  <2>3. TypeInv'
    BY <1>0, <2>1, <2>2 DEF IInv, TypeInv, regVars, hubVars
  <2>4. Balanced
    <3> SUFFICES ASSUME NEW c \in Connections
                 PROVE  Holders(c)' - Holders(c) = ref'[c] - ref[c] /\ ref'[c] <= ref[c] + 1
      BY <1>0 DEF Balanced
    <3>1. Ports(c)' - Ports(c) = Is(x, c)
      BY <1>2, <2>1, PortGains DEF IInv
    <3>2. /\ Keeps(c)' - Keeps(c) = 0 /\ Notices(c)' - Notices(c) = 0
          /\ Flights(c)' - Flights(c) = 0 /\ Pins(c)' - Pins(c) = 0 /\ Walks(c)' - Walks(c) = 0
          /\ Posts(c)' - Posts(c) = 0 /\ Downs(c)' - Downs(c) = 0
      BY <1>0, Same DEF hubVars, IInv
    <3>3. Holders(c)' - Holders(c) = Is(x, c)
      BY <2>3, <3>1, <3>2, Shift DEF IInv, Is
    <3>4. ref'[c] - ref[c] = Is(x, c) /\ ref[c] \in Int /\ ref'[c] \in Int
      BY <2>1 DEF Is, IInv, TypeInv
    <3> QED BY <3>3, <3>4 DEF Is
  <2>5. \A c \in Connections : RefInv(c)' /\ (Dead(c)' <=> Dead(c))
    BY <2>3, <2>4, Counted
  <2>6. Steady
    BY <1>0, <2>5 DEF Steady
  <2>7. ~Dead(x) /\ ref[x] > 0 /\ x \in offered
    BY <1>0, HeldIsLive
  <2>8. ASSUME NEW c \in Connections PROVE ConInv(c)'
    <3> DEFINE n == Len(port)
    <3>0. /\ n \in Nat /\ Len(port') = n + 1 /\ \A i \in 1 .. n : port'[i] = port[i]
          /\ port'[n + 1].con = x /\ port'[n + 1].op # "recv"
      BY <2>1, <2>2
    <3> HIDE DEF n
    <3>1. LastInv(c)'
      <4>1. CASE Dead(c)
        <5>1. \A i \in 1 .. n + 1 : port'[i].con = c => i \in 1 .. n /\ port[i].con = c
          BY <2>7, <3>0, <4>1
        <5> QED BY <1>0, <2>5, <3>0, <4>1, <5>1
             DEF IInv, ConInv, LastInv, Posted, Noted, hubVars, n
      <4> QED BY <2>5, <4>1 DEF LastInv
    <3>2. RecvInv(c)'
      <4>1. \A i \in 1 .. n + 1 : port'[i].op = "recv" => i \in 1 .. n /\ port'[i] = port[i]
        BY <3>0
      <4> QED BY <1>0, <3>0, <4>1 DEF IInv, ConInv, RecvInv, n
    <3>3. FreshInv(c)'
      BY <1>0, <2>1, <2>7 DEF IInv, ConInv, FreshInv, regVars
    <3>4. CASE c \in offered
      <4>1. ref'[c] = ref[c] \/ (ref[c] # 0 /\ ref'[c] # 0)
        BY <2>1, <2>7 DEF IInv, TypeInv
      <4>2. RestInv(c)'
        BY <1>0, <2>6, <3>4, <4>1, KeepRest DEF regVars
      <4> QED BY <2>5, <3>1, <3>2, <3>3, <4>2 DEF ConInv
    <3>5. CASE c \notin offered
      BY <1>0, <2>5, <3>1, <3>2, <3>3, <3>5 DEF RestInv, ConInv
    <3> QED BY <3>4, <3>5
  <2>9. ListInv' /\ NoTwins'
    BY <1>0, <2>6, KeepList DEF regVars
  <2>10. RelInv' /\ PhaseInv'
    BY <1>0, <2>5 DEF IInv, RelInv, PhaseInv, regVars, hubVars
  <2>11. JobInv'
    BY <1>0, <2>6, KeepJob DEF IInv, JobInv, regVars
  <2>12. WalkInv'
    <3>1. \A c \in Connections : Dead(c) /\ Posted(c)' => Posted(c)
      BY <2>2, <2>7 DEF Posted
    <3> QED BY <1>0, <2>6, <3>1, KeepWalk DEF regVars, hubVars
  <2> QED BY <2>3, <2>8, <2>9, <2>10, <2>11, <2>12 DEF IInv
<1> QED BY <1>1, <1>2 DEF SignalOne

LEMMA StartupStep ==
    ASSUME IInv, NEW t \in Apps, Startup(t)
    PROVE  IInv'
<1> DEFINE x == job[t].con
           e == [con |-> x, msg |-> "startup"]
           n == Len(fifo)
<1>1. /\ job[t].do = "start" /\ x \in Connections
      /\ bound' = [bound EXCEPT ![x] = TRUE] /\ fifo' = Append(fifo, e)
      /\ ref' = [ref EXCEPT ![x] = @ + 1] /\ job' = [job EXCEPT ![t].do = "leave"]
      /\ UNCHANGED <<heap, destroyed, open, recv, port, regVars, hubVars, section, held, safe,
                     offered, signals, rel, crimes>>
  <2>1. job[t].con # None /\ job[t] \in Jobs
    BY DEF Startup, IInv, JobInv, TypeInv
  <2> QED BY <2>1 DEF Startup, Jobs
<1>2. /\ job' \in [Apps -> Jobs] /\ job'[t].con = x /\ job'[t].do = "leave"
      /\ \A u \in Apps : u # t => job'[u] = job[u]
      /\ \A u \in Apps : job'[u].con = job[u].con
  BY <1>1 DEF IInv, TypeInv, Jobs
<1>3. /\ ref' \in [Connections -> Int] /\ ref'[x] = ref[x] + 1
      /\ \A c \in Connections : c # x => ref'[c] = ref[c]
      /\ bound' \in [Connections -> BOOLEAN]
  BY <1>1 DEF IInv, TypeInv
<1>4. /\ n \in Nat /\ Len(fifo') = n + 1 /\ fifo' \in Seq(Notes)
      /\ fifo'[n + 1] = e /\ \A i \in 1 .. n : fifo'[i] = fifo[i]
  <2>1. fifo \in Seq(Notes)
    BY DEF IInv, TypeInv
  <2>2. e \in Notes
    BY <1>1 DEF Notes
  <2> QED BY <1>1, <2>1, <2>2, AppendProperties, LenProperties
<1>5. TypeInv'
  BY <1>1, <1>2, <1>3, <1>4 DEF IInv, TypeInv, regVars, hubVars
<1>6. ~Dead(x) /\ ref[x] > 0 /\ x \in offered
  BY <1>1, HeldIsLive
<1>7. recv[x] = "idle" /\ \A i \in 1 .. n : fifo[i] # e
  BY <1>1 DEF IInv, JobInv
<1> HIDE DEF x, n
<1>8. Balanced
  <2> SUFFICES ASSUME NEW c \in Connections
               PROVE  Holders(c)' - Holders(c) = ref'[c] - ref[c] /\ ref'[c] <= ref[c] + 1
    BY <1>1 DEF Balanced
  <2>1. Notices(c)' - Notices(c) = Is(x, c)
    <3>1. e \in Notes
      BY <1>1 DEF Notes
    <3>2. Notices(c)' - Notices(c) = Is(e.con, c)
      BY <1>1, <3>1, FifoGains DEF IInv
    <3> QED BY <3>2
  <2>2. Posts(c)' - Posts(c) = 0
    <3>1. {u \in Apps : job'[u].con = c} = {u \in Apps : job[u].con = c}
      BY <1>2
    <3>2. Posts(c)' = Posts(c)
      BY <3>1 DEF Posts
    <3> QED BY <3>2, Parts DEF IInv
  <2>3. /\ Keeps(c)' - Keeps(c) = 0 /\ Ports(c)' - Ports(c) = 0
        /\ Flights(c)' - Flights(c) = 0 /\ Pins(c)' - Pins(c) = 0 /\ Walks(c)' - Walks(c) = 0
        /\ Downs(c)' - Downs(c) = 0
    BY <1>1, Same DEF hubVars, IInv
  <2>4. Holders(c)' - Holders(c) = Is(x, c)
    BY <1>5, <2>1, <2>2, <2>3, Shift DEF IInv, Is
  <2>5. ref'[c] - ref[c] = Is(x, c) /\ ref[c] \in Int /\ ref'[c] \in Int
    BY <1>3 DEF Is, IInv, TypeInv
  <2> QED BY <2>4, <2>5 DEF Is
<1>9. \A c \in Connections : RefInv(c)' /\ (Dead(c)' <=> Dead(c))
  BY <1>5, <1>8, Counted
<1>10. Steady
  BY <1>1, <1>9 DEF Steady
<1>11. ASSUME NEW c \in Connections PROVE ConInv(c)'
  <2>1. LastInv(c)'
    <3>1. CASE Dead(c)
      <4>1. ~Noted(c)' /\ c # x
        BY <1>4, <1>6, <3>1 DEF IInv, ConInv, LastInv, Noted, n
      <4> QED BY <1>1, <1>2, <1>9, <3>1, <4>1 DEF IInv, ConInv, LastInv, Posted, hubVars
    <3> QED BY <1>9, <3>1 DEF LastInv
  <2>2. RecvInv(c)'
    <3>1. ASSUME NEW i \in 1 .. Len(fifo'), fifo'[i] = [con |-> c, msg |-> "startup"]
          PROVE  /\ recv'[c] = "idle"
                 /\ \A j \in 1 .. Len(fifo') : fifo'[j] = [con |-> c, msg |-> "startup"] => i = j
      <4>1. CASE c = x
        <5>1. \A j \in 1 .. n + 1 : fifo'[j] = e => j = n + 1
          BY <1>4, <1>7
        <5> QED BY <1>1, <1>4, <1>7, <3>1, <4>1, <5>1
      <4>2. CASE c # x
        <5>1. \A j \in 1 .. n + 1 : fifo'[j] = [con |-> c, msg |-> "startup"] =>
                j \in 1 .. n /\ fifo[j] = fifo'[j]
          BY <1>4, <4>2
        <5> QED BY <1>1, <1>4, <3>1, <5>1 DEF IInv, ConInv, RecvInv, n
      <4> QED BY <4>1, <4>2
    <3>2. port' = port /\ recv' = recv
      BY <1>1
    <3> QED BY <3>1, <3>2 DEF IInv, ConInv, RecvInv
  <2>3. FreshInv(c)'
    BY <1>1, <1>3, <1>6 DEF IInv, ConInv, FreshInv, regVars
  <2>4. CASE c \in offered
    <3>1. ref'[c] = ref[c] \/ (ref[c] # 0 /\ ref'[c] # 0)
      BY <1>3, <1>6 DEF IInv, TypeInv
    <3>2. RestInv(c)'
      BY <1>1, <1>10, <2>4, <3>1, KeepRest DEF regVars
    <3> QED BY <1>9, <2>1, <2>2, <2>3, <3>2 DEF ConInv
  <2>5. CASE c \notin offered
    BY <1>1, <1>9, <2>1, <2>2, <2>3, <2>5 DEF RestInv, ConInv
  <2> QED BY <2>4, <2>5
<1>12. ListInv' /\ NoTwins'
  BY <1>1, <1>10, KeepList DEF regVars
<1>13. RelInv' /\ PhaseInv'
  BY <1>1, <1>9 DEF IInv, RelInv, PhaseInv, regVars, hubVars
<1>14. JobInv'
  <2>1. section = t /\ \A u \in Apps : u # t => job[u].do = "idle"
    BY <1>1 DEF IInv, JobInv
  <2> QED BY <1>1, <1>2, <1>6, <2>1 DEF IInv, JobInv
<1>15. WalkInv'
  BY <1>1, <1>10, KeepWalk DEF regVars, hubVars, Posted
<1> QED BY <1>5, <1>11, <1>12, <1>13, <1>14, <1>15 DEF IInv

LEMMA DispatchStartupStep ==
    ASSUME IInv, DispatchStartup
    PROVE  IInv'
<1> DEFINE x == Head(fifo).con
           e == [con |-> x, msg |-> "startup"]
           n == Len(fifo)
           r == Releasing(x)
<1>1. /\ hub = "run" /\ Free(Hub) /\ Hub \in Threads /\ Hub \notin Apps
      /\ fifo # <<>> /\ Head(fifo).msg = "startup" /\ fifo' = Tail(fifo)
      /\ open' = [open EXCEPT ![x] = TRUE] /\ recv' = [recv EXCEPT ![x] = "flying"]
      /\ ref' = [ref EXCEPT ![x] = @ + 1] /\ rel' = [rel EXCEPT ![Hub] = r]
      /\ UNCHANGED <<heap, destroyed, bound, port, regVars, hubVars, appVars, crimes>>
  BY ThreadsAssumption DEF DispatchStartup, Threads
<1>2. /\ n \in Nat /\ n > 0 /\ Head(fifo) \in Notes /\ Head(fifo) = fifo[1]
      /\ fifo' \in Seq(Notes) /\ Len(fifo') = n - 1
      /\ \A i \in 1 .. n - 1 : fifo'[i] = fifo[i + 1]
  BY <1>1, HeadTailProperties, EmptySeq, LenProperties DEF IInv, TypeInv
<1>3. x \in Connections /\ fifo[1] = e /\ fifo[1].con = x
  BY <1>1, <1>2 DEF Notes
<1> HIDE DEF x
<1>4. recv[x] = "idle" /\ ~Dead(x) /\ \A i \in 2 .. n : fifo[i] # e
  <2>1. RecvInv(x) /\ LastInv(x) /\ 1 \in 1 .. Len(fifo) /\ n \in Nat
    BY <1>2, <1>3 DEF IInv, ConInv
  <2>2. recv[x] = "idle" /\ \A i \in 2 .. n : fifo[i] # e
    BY <1>3, <2>1 DEF RecvInv
  <2>3. Noted(x)
    BY <1>3, <2>1 DEF Noted
  <2> QED BY <2>1, <2>2, <2>3 DEF LastInv
<1> HIDE DEF n
<1>5. /\ ref' \in [Connections -> Int] /\ ref'[x] = ref[x] + 1
      /\ \A c \in Connections : c # x => ref'[c] = ref[c]
      /\ open' \in [Connections -> BOOLEAN]
      /\ recv' \in [Connections -> {"idle", "flying", "port"}] /\ recv'[x] = "flying"
      /\ \A c \in Connections : c # x => recv'[c] = recv[c]
  BY <1>1, <1>3 DEF IInv, TypeInv
<1>6. /\ rel'[Hub] = r /\ \A u \in Threads : u # Hub => rel'[u] = rel[u]
      /\ rel[Hub] = Returned /\ r \in Releases /\ r.con = x /\ r.at = "down"
  BY <1>1, <1>3 DEF IInv, TypeInv, Free, Releasing, Releases
<1> HIDE DEF r
<1>7. TypeInv'
  BY <1>1, <1>2, <1>5, <1>6 DEF IInv, TypeInv, regVars, hubVars, appVars
<1>8. Balanced
  <2> SUFFICES ASSUME NEW c \in Connections
               PROVE  Holders(c)' - Holders(c) = ref'[c] - ref[c] /\ ref'[c] <= ref[c] + 1
    BY <1>1 DEF Balanced
  <2>1. Notices(c)' - Notices(c) = 0 - Is(x, c)
    BY <1>1, FifoLoses DEF IInv, x
  <2>2. Flights(c)' - Flights(c) = Is(x, c)
    BY <1>4, <1>5 DEF Flights, Is
  <2>3. Downs(c)' - Downs(c) = Is(x, c)
    <3>1. Downs(c)' - Downs(c) = IsDown(r, c) - IsDown(rel[Hub], c)
      BY <1>1, DownMoves DEF IInv
    <3> QED BY <1>6, <3>1 DEF IsDown, Is, Returned
  <2>4. /\ Keeps(c)' - Keeps(c) = 0 /\ Ports(c)' - Ports(c) = 0 /\ Posts(c)' - Posts(c) = 0
        /\ Pins(c)' - Pins(c) = 0 /\ Walks(c)' - Walks(c) = 0
    BY <1>1, Same DEF hubVars, appVars, IInv
  <2>5. Holders(c)' - Holders(c) = Is(x, c)
    BY <1>7, <2>1, <2>2, <2>3, <2>4, Shift DEF IInv, Is
  <2>6. ref'[c] - ref[c] = Is(x, c) /\ ref[c] \in Int /\ ref'[c] \in Int
    BY <1>5 DEF Is, IInv, TypeInv
  <2> QED BY <2>5, <2>6 DEF Is
<1>9. \A c \in Connections : RefInv(c)' /\ (Dead(c)' <=> Dead(c))
  BY <1>7, <1>8, Counted
<1>10. Steady
  BY <1>1, <1>9 DEF Steady
<1>11. ref[x] > 0 /\ x \in offered
  <2>1. Noted(x)
    BY <1>2, <1>3 DEF Noted, n
  <2>2. ref[x] # 0 /\ ref[x] \in Int /\ ~(ref[x] < 0)
    BY <1>3, <1>4, <2>1, NoneLeft DEF IInv, ConInv, RefInv, Dead, TypeInv
  <2> QED BY <1>3, <2>2 DEF IInv, ConInv, FreshInv
<1>12. ASSUME NEW c \in Connections PROVE ConInv(c)'
  <2>1. LastInv(c)'
    <3>1. CASE Dead(c)
      <4>1. ~Noted(c)' /\ c # x
        BY <1>2, <1>4, <3>1 DEF IInv, ConInv, LastInv, Noted, n
      <4> QED BY <1>1, <1>5, <1>6, <1>9, <3>1, <4>1
           DEF IInv, ConInv, LastInv, Posted, hubVars, appVars, Threads
    <3> QED BY <1>9, <3>1 DEF LastInv
  <2>2. RecvInv(c)'
    <3>1. ASSUME NEW i \in 1 .. Len(fifo'), fifo'[i] = [con |-> c, msg |-> "startup"]
          PROVE  /\ recv'[c] = "idle"
                 /\ \A j \in 1 .. Len(fifo') : fifo'[j] = [con |-> c, msg |-> "startup"] => i = j
      <4>1. /\ i + 1 \in 2 .. n /\ fifo[i + 1] = [con |-> c, msg |-> "startup"]
            /\ \A j \in 1 .. Len(fifo') : fifo'[j] = fifo[j + 1] /\ j + 1 \in 2 .. n
        BY <1>2, <3>1
      <4>2. c # x
        BY <1>4, <4>1
      <4>3. RecvInv(c) /\ n = Len(fifo) /\ n \in Nat /\ 2 .. n \subseteq 1 .. n
        BY <1>2 DEF IInv, ConInv, n
      <4>4. recv[c] = "idle"
        BY <4>1, <4>3 DEF RecvInv
      <4>5. ASSUME NEW j \in 1 .. Len(fifo'), fifo'[j] = [con |-> c, msg |-> "startup"] PROVE i = j
        <5>1. fifo[j + 1] = [con |-> c, msg |-> "startup"] /\ j + 1 \in 2 .. n
          BY <4>1, <4>5
        <5>2. i + 1 = j + 1
          BY <4>1, <4>3, <5>1 DEF RecvInv
        <5> QED BY <1>2, <5>2
      <4> QED BY <1>5, <4>2, <4>4, <4>5
    <3>2. ASSUME NEW i \in 1 .. Len(port'), port'[i].con = c, port'[i].op = "recv"
          PROVE  /\ recv'[c] = "port"
                 /\ \A j \in 1 .. Len(port') : port'[j].con = c /\ port'[j].op = "recv" => i = j
      <4>1. RecvInv(c) /\ port' = port
        BY <1>1 DEF IInv, ConInv
      <4>2. recv[c] = "port" /\ \A j \in 1 .. Len(port') : port'[j].con = c /\ port'[j].op = "recv" => i = j
        BY <3>2, <4>1 DEF RecvInv
      <4> QED BY <1>4, <1>5, <4>2
    <3> QED BY <3>1, <3>2 DEF RecvInv
  <2>3. FreshInv(c)'
    BY <1>1, <1>5, <1>6, <1>11 DEF IInv, ConInv, FreshInv, regVars, appVars
  <2>4. CASE c \in offered
    <3>1. ref'[c] = ref[c] \/ (ref[c] # 0 /\ ref'[c] # 0)
      BY <1>5, <1>11 DEF IInv, TypeInv
    <3>2. \A u \in Threads : rel[u].at \in {"look", "claim", "drop"} => rel'[u] = rel[u]
      BY <1>6 DEF Returned
    <3>3. RestInv(c)'
      BY <1>1, <1>10, <2>4, <3>1, <3>2, KeepRest DEF regVars
    <3> QED BY <1>9, <2>1, <2>2, <2>3, <3>3 DEF ConInv
  <2>5. CASE c \notin offered
    BY <1>1, <1>9, <2>1, <2>2, <2>3, <2>5 DEF RestInv, ConInv, appVars
  <2> QED BY <2>4, <2>5
<1>13. ListInv' /\ NoTwins'
  BY <1>1, <1>10, KeepList DEF regVars
<1>14. RelInv' /\ PhaseInv'
  BY <1>1, <1>3, <1>6, <1>9 DEF IInv, RelInv, PhaseInv, regVars, hubVars
<1>15. JobInv'
  <2>1. ASSUME NEW t \in Apps, job[t].do \in {"post", "start"}
        PROVE  /\ recv'[job[t].con] = "idle"
               /\ \A i \in 1 .. Len(fifo') : fifo'[i] # [con |-> job[t].con, msg |-> "startup"]
    <3>1. /\ recv[job[t].con] = "idle" /\ job[t].con \in Connections
          /\ \A i \in 1 .. n : fifo[i] # [con |-> job[t].con, msg |-> "startup"]
      BY <2>1 DEF IInv, JobInv, TypeInv, Jobs, n
    <3>2. job[t].con # x
      BY <1>2, <1>3, <3>1
    <3>3. \A i \in 1 .. Len(fifo') : i + 1 \in 1 .. n /\ fifo'[i] = fifo[i + 1]
      BY <1>2
    <3>4. \A i \in 1 .. Len(fifo') : fifo'[i] # [con |-> job[t].con, msg |-> "startup"]
      BY <3>1, <3>3
    <3> QED BY <1>5, <3>1, <3>2, <3>4
  <2> QED BY <1>1, <1>10, <2>1, KeepJob DEF regVars, appVars
<1>16. WalkInv'
  BY <1>1 DEF WalkInv, hubVars
<1> QED BY <1>7, <1>12, <1>13, <1>14, <1>15, <1>16 DEF IInv

\* RunHub cancels the connection its walk stands at.
LEMMA SignalDestroyStep ==
    ASSUME IInv, SignalDestroy
    PROVE  IInv'
<1> DEFINE x == cursor
           e == [con |-> x, op |-> "destroy"]
           n == Len(port)
<1>1. /\ hub = "signal" /\ hub' \in {"signalling", "ended"} /\ x \in Connections
      /\ UNCHANGED <<heap, destroyed, bound, open, recv, fifo, regVars, cursor, pins, appVars, rel>>
  <2>1. hub = "signal" /\ cursor \in Connections
    BY DEF SignalDestroy, IInv, WalkInv
  <2> QED BY <2>1 DEF SignalDestroy
<1>2. /\ x # None /\ (keyed[x] \/ heap[x] = "freed")
      /\ \A c \in Connections : Dead(c) /\ Posted(c) /\ keyed[c] => ~keyed[x] \/ Before(c, x)
  BY <1>1, ThreadsAssumption DEF IInv, WalkInv
<1>3. ~Before(x, x)
  BY DEF Before, IInv, ListInv
<1>4. pins = {}
  BY <1>1 DEF IInv, PhaseInv
<1>5. CASE port' = port /\ ref' = ref
  <2>1. TypeInv'
    BY <1>1, <1>5 DEF IInv, TypeInv, regVars, appVars
  <2>2. \A c \in Connections : Holders(c)' = Holders(c)
    BY <1>1, <1>5 DEF Holders, appVars
  <2>3. UNCHANGED <<heap, ref, destroyed, recv, port, fifo, keyed, hubList, cursor, pins,
                    section, job, held, safe, offered, rel>>
    BY <1>1, <1>5 DEF regVars, appVars
  <2>4. \A c \in Connections : ConInv(c)'
    BY <1>1, <2>2, <2>3 DEF IInv, ConInv, RefInv, LastInv, RecvInv, FreshInv, RestInv, Dead, Posted, Noted
  <2>5. ListInv' /\ NoTwins' /\ RelInv' /\ JobInv' /\ PhaseInv'
    BY <1>1, <1>4, <2>3 DEF IInv, ListInv, NoTwins, Claimed, RelInv, JobInv, PhaseInv, Dead
  <2>6. WalkInv'
    BY <1>1, <1>2, <2>3 DEF WalkInv, Dead, Posted, Before
  <2> QED BY <2>1, <2>4, <2>5, <2>6 DEF IInv
<1>6. CASE /\ port' = Append(port, e) /\ ref' = [ref EXCEPT ![x] = @ + 1]
           /\ heap[x] = "live" /\ hub' = "signalling"
  <2>1. /\ ref' \in [Connections -> Int] /\ ref'[x] = ref[x] + 1 /\ ref \in [Connections -> Int]
        /\ \A c \in Connections : c # x => ref'[c] = ref[c]
        /\ e \in Packets /\ port \in Seq(Packets)
    BY <1>1, <1>6 DEF IInv, TypeInv, Packets, Signals
  <2>2. /\ n \in Nat /\ Len(port') = n + 1 /\ port' \in Seq(Packets)
        /\ \A i \in 1 .. n : port'[i] = port[i]
        /\ port'[n + 1].con = x /\ port'[n + 1].op # "recv"
    BY <1>6, <2>1, AppendProperties, LenProperties
  <2>3. /\ keyed[x] /\ x \in offered
        /\ Dead(x) => ~Posted(x)
    BY <1>1, <1>2, <1>3, <1>6 DEF IInv, ConInv, FreshInv
  <2> HIDE DEF x, n
  <2>4. TypeInv'
    BY <1>1, <1>6, <2>1, <2>2 DEF IInv, TypeInv, regVars, appVars
  <2>5. Balanced
    <3> SUFFICES ASSUME NEW c \in Connections
                 PROVE  Holders(c)' - Holders(c) = ref'[c] - ref[c] /\ ref'[c] <= ref[c] + 1
      BY <1>1 DEF Balanced
    <3>1. Ports(c)' - Ports(c) = Is(x, c)
      <4>1. Ports(c)' - Ports(c) = Is(e.con, c)
        BY <1>6, <2>1, PortGains DEF IInv
      <4> QED BY <4>1
    <3>2. /\ Keeps(c)' - Keeps(c) = 0 /\ Notices(c)' - Notices(c) = 0
          /\ Flights(c)' - Flights(c) = 0 /\ Pins(c)' - Pins(c) = 0 /\ Walks(c)' - Walks(c) = 0
          /\ Posts(c)' - Posts(c) = 0 /\ Downs(c)' - Downs(c) = 0
      BY <1>1, Same DEF appVars, IInv
    <3>3. Holders(c)' - Holders(c) = Is(x, c)
      BY <2>4, <3>1, <3>2, Shift DEF IInv, Is
    <3>4. ref'[c] - ref[c] = Is(x, c) /\ ref[c] \in Int /\ ref'[c] \in Int
      BY <2>1 DEF Is
    <3> QED BY <3>3, <3>4 DEF Is
  <2>6. \A c \in Connections : RefInv(c)' /\ (Dead(c)' <=> Dead(c))
    BY <2>4, <2>5, Counted
  <2>7. Steady
    BY <1>1, <2>6 DEF Steady
  <2>8. \A c \in Connections : Posted(c)' => Posted(c) \/ c = x
    BY <2>2 DEF Posted, n
  <2>9. ASSUME NEW c \in Connections PROVE ConInv(c)'
    <3>1. LastInv(c)'
      <4>1. CASE Dead(c)
        <5>1. \A i, j \in 1 .. n + 1 : port'[i].con = c /\ port'[j].con = c => i = j
          <6>1. CASE c = x
            <7>1. \A i \in 1 .. n : port[i].con # c
              BY <2>3, <4>1, <6>1 DEF Posted, n
            <7> QED BY <2>2, <7>1
          <6>2. CASE c # x
            <7>1. \A i \in 1 .. n + 1 : port'[i].con = c => i \in 1 .. n /\ port[i].con = c
              BY <2>2, <6>2
            <7>2. \A i, j \in 1 .. n : port[i].con = c /\ port[j].con = c => i = j
              BY <4>1 DEF IInv, ConInv, LastInv, n
            <7> QED BY <7>1, <7>2
          <6> QED BY <6>1, <6>2
        <5> QED BY <1>1, <2>2, <2>6, <4>1, <5>1
             DEF IInv, ConInv, LastInv, Noted, appVars
      <4> QED BY <2>6, <4>1 DEF LastInv
    <3>2. RecvInv(c)'
      <4>1. \A i \in 1 .. n + 1 : port'[i].op = "recv" => i \in 1 .. n /\ port'[i] = port[i]
        BY <2>2
      <4> QED BY <1>1, <2>2, <4>1 DEF IInv, ConInv, RecvInv, n
    <3>3. FreshInv(c)'
      BY <1>1, <2>1, <2>3 DEF IInv, ConInv, FreshInv, regVars, appVars
    <3>4. CASE c \in offered
      <4>1. ref'[c] = ref[c] \/ (ref[c] # 0 /\ ref'[c] # 0) \/ (ref[c] = 0 /\ ref'[c] > 0)
        <5>1. CASE ref[x] < 0
          <6>1. Dead(x)' /\ heap'[x] = "live"
            BY <1>1, <1>6, <2>6, <5>1 DEF Dead, x
          <6>2. ref'[x] < 0 /\ ref[x] \in Int /\ ref'[x] \in Int
            BY <1>1, <2>1, <6>1 DEF Dead, x
          <6> QED BY <2>1, <5>1, <6>2
        <5>2. CASE ~(ref[x] < 0)
          BY <1>1, <2>1, <5>2 DEF x
        <5> QED BY <5>1, <5>2
      <4>2. RestInv(c)'
        BY <1>1, <2>7, <3>4, <4>1, KeepRest DEF regVars
      <4> QED BY <2>6, <3>1, <3>2, <3>3, <4>2 DEF ConInv
    <3>5. CASE c \notin offered
      BY <1>1, <2>6, <3>1, <3>2, <3>3, <3>5 DEF RestInv, ConInv, appVars
    <3> QED BY <3>4, <3>5
  <2>10. ListInv' /\ NoTwins'
    BY <1>1, <2>7, KeepList DEF regVars
  <2>11. RelInv' /\ PhaseInv'
    BY <1>1, <1>4, <2>6 DEF IInv, RelInv, PhaseInv, regVars
  <2>12. JobInv'
    BY <1>1, <2>7, KeepJob DEF IInv, JobInv, regVars, appVars
  <2>13. WalkInv'
    <3>1. UNCHANGED <<keyed, hubList, cursor, heap>>
      BY <1>1 DEF regVars
    <3>2. ASSUME NEW c \in Connections, Dead(c)', Posted(c)', keyed'[c]
          PROVE  c = x \/ Before(c, x)
      BY <1>2, <2>3, <2>6, <2>8, <3>1, <3>2
    <3>3. \A c \in Connections : Before(c, cursor)' <=> Before(c, x)
      BY <3>1 DEF Before, x
    <3> QED BY <1>2, <1>6, <3>1, <3>2, <3>3 DEF WalkInv, x
  <2> QED BY <2>4, <2>9, <2>10, <2>11, <2>12, <2>13 DEF IInv
<1>7. heap[x] # "freed" => heap[x] = "live"
  BY <1>1 DEF IInv, TypeInv
<1> QED BY <1>5, <1>6, <1>7 DEF SignalDestroy, Freed

LEMMA PinStep ==
    ASSUME IInv, Pin
    PROVE  IInv'
<1>1. /\ hub = "ended" /\ hub' = "pinned" /\ pins' = ToSet(hubList)
      /\ ref' = [c \in Connections |-> ref[c] + (IF c \in pins' THEN 1 ELSE 0)]
      /\ UNCHANGED <<heap, destroyed, pumpVars, regVars, cursor, appVars, rel, crimes>>
  BY DEF Pin, HubSteps
<1>2. \A c \in Connections : c \in pins' <=> keyed[c]
  <2>1. DOMAIN hubList = 1 .. Len(hubList)
    BY LenProperties DEF IInv, TypeInv
  <2> QED BY <1>1, <2>1 DEF IInv, ListInv, ToSet
<1>3. /\ pins = {} /\ pins' \in SUBSET Connections
  <2>1. DOMAIN hubList = 1 .. Len(hubList) /\ \A i \in 1 .. Len(hubList) : hubList[i] \in Connections
    BY LenProperties DEF IInv, TypeInv
  <2> QED BY <1>1, <2>1 DEF IInv, PhaseInv, ToSet
<1>4. /\ ref' \in [Connections -> Int]
      /\ \A c \in Connections : ref'[c] = ref[c] + Holds(pins', c)
  BY <1>1 DEF IInv, TypeInv, Holds
<1>5. TypeInv'
  BY <1>1, <1>3, <1>4 DEF IInv, TypeInv, pumpVars, regVars, appVars
<1>6. Balanced
  <2> SUFFICES ASSUME NEW c \in Connections
               PROVE  Holders(c)' - Holders(c) = ref'[c] - ref[c] /\ ref'[c] <= ref[c] + 1
    BY <1>1 DEF Balanced
  <2>1. Pins(c)' - Pins(c) = Holds(pins', c)
    BY <1>3 DEF Pins, Holds
  <2>2. /\ Ports(c)' - Ports(c) = 0 /\ Keeps(c)' - Keeps(c) = 0 /\ Notices(c)' - Notices(c) = 0
        /\ Flights(c)' - Flights(c) = 0 /\ Walks(c)' - Walks(c) = 0
        /\ Posts(c)' - Posts(c) = 0 /\ Downs(c)' - Downs(c) = 0
    BY <1>1, Same DEF appVars, pumpVars, IInv
  <2>3. Holders(c)' - Holders(c) = Holds(pins', c)
    BY <1>5, <2>1, <2>2, Shift DEF IInv, Holds
  <2>4. ref'[c] - ref[c] = Holds(pins', c) /\ ref[c] \in Int /\ ref'[c] \in Int
    BY <1>4 DEF Holds, IInv, TypeInv
  <2> QED BY <2>3, <2>4 DEF Holds
<1>7. \A c \in Connections : RefInv(c)' /\ (Dead(c)' <=> Dead(c))
  BY <1>5, <1>6, Counted
<1>8. Steady
  BY <1>1, <1>7 DEF Steady
<1>9. ASSUME NEW c \in Connections PROVE ConInv(c)'
  <2>1. LastInv(c)'
    BY <1>1, <1>7 DEF IInv, ConInv, LastInv, Posted, Noted, pumpVars, appVars
  <2>2. RecvInv(c)'
    BY <1>1 DEF IInv, ConInv, RecvInv, pumpVars
  <2>3. FreshInv(c)'
    BY <1>1, <1>2, <1>4 DEF IInv, ConInv, FreshInv, regVars, pumpVars, appVars, TypeInv, Holds
  <2>4. CASE c \in offered
    <3>1. ref'[c] = ref[c] \/ (ref[c] # 0 /\ ref'[c] # 0) \/ (ref[c] = 0 /\ ref'[c] > 0)
      <4>0. ref[c] \in Int /\ Holds(pins', c) \in {0, 1} /\ ref'[c] = ref[c] + Holds(pins', c)
        BY <1>4 DEF IInv, TypeInv, Holds
      <4>1. CASE heap[c] = "live" /\ ref[c] < 0
        <5>1. Dead(c)' /\ heap'[c] = "live"
          BY <1>1, <1>7, <4>1 DEF Dead
        <5> QED BY <4>1, <5>1, <1>4 DEF Dead, IInv, TypeInv
      <4>2. CASE heap[c] = "freed"
        <5>1. Holds(pins', c) = 0
          BY <1>2, <4>2 DEF IInv, ListInv, Holds
        <5> QED BY <4>0, <5>1
      <4>3. CASE ~(ref[c] < 0)
        BY <4>0, <4>3
      <4> QED BY <4>1, <4>2, <4>3 DEF IInv, TypeInv
    <3>2. RestInv(c)'
      BY <1>1, <1>8, <2>4, <3>1, KeepRest DEF regVars
    <3> QED BY <1>7, <2>1, <2>2, <2>3, <3>2 DEF ConInv
  <2>5. CASE c \notin offered
    BY <1>1, <1>7, <2>1, <2>2, <2>3, <2>5 DEF RestInv, ConInv, appVars
  <2> QED BY <2>4, <2>5
<1>10. ListInv' /\ NoTwins'
  BY <1>1, <1>8, KeepList DEF regVars
<1>11. RelInv' /\ PhaseInv'
  BY <1>1, <1>2, <1>7 DEF IInv, RelInv, PhaseInv, regVars
<1>12. JobInv'
  BY <1>1, <1>8, KeepJob DEF IInv, JobInv, regVars, appVars, pumpVars
<1>13. WalkInv'
  BY <1>1 DEF WalkInv
<1> QED BY <1>5, <1>9, <1>10, <1>11, <1>12, <1>13 DEF IInv

LEMMA SweepStep ==
    ASSUME IInv, Sweep
    PROVE  IInv'
<1>1. /\ hub = "pinned" /\ hub' = "draining"
      /\ destroyed' = [c \in Connections |-> destroyed[c] \/ c \in pins]
      /\ open' = [c \in Connections |-> open[c] /\ c \notin pins]
      /\ UNCHANGED <<heap, ref, bound, recv, port, fifo, regVars, cursor, pins, appVars, rel, crimes>>
  BY DEF Sweep, HubSteps
<1>2. /\ destroyed' \in [Connections -> BOOLEAN] /\ open' \in [Connections -> BOOLEAN]
      /\ \A c \in Connections : destroyed'[c] <=> destroyed[c] \/ c \in pins
  BY <1>1 DEF IInv, TypeInv
<1>3. TypeInv'
  BY <1>1, <1>2 DEF IInv, TypeInv, regVars, appVars
<1>4. UNCHANGED <<heap, ref, recv, port, fifo, keyed, hubList, cursor, pins,
                  section, job, held, safe, offered, rel>>
  BY <1>1 DEF regVars, appVars
<1>5. \A c \in Connections : Holders(c)' = Holders(c)
  BY <1>4 DEF Holders
<1>6. ASSUME NEW c \in Connections PROVE ConInv(c)'
  <2>1. RefInv(c)' /\ LastInv(c)' /\ RecvInv(c)' /\ FreshInv(c)'
    BY <1>1, <1>4, <1>5 DEF IInv, ConInv, RefInv, LastInv, RecvInv, FreshInv, Dead, Posted, Noted
  <2>2. heap[c] = "live" /\ ref[c] = 0 => c \notin pins
    BY NoneLeft DEF IInv, ConInv, RefInv
  <2>3. RestInv(c)'
    BY <1>2, <1>4, <2>2 DEF IInv, ConInv, RestInv
  <2> QED BY <2>1, <2>3 DEF ConInv
<1>7. ListInv' /\ NoTwins' /\ RelInv' /\ JobInv'
  BY <1>4 DEF IInv, ListInv, NoTwins, RelInv, JobInv, Claimed, Dead
<1>8. PhaseInv' /\ WalkInv'
  BY <1>1, <1>2, <1>4 DEF IInv, PhaseInv, WalkInv
<1> QED BY <1>3, <1>6, <1>7, <1>8 DEF IInv

\* The scan found no twin: the connection is listed.
LEMMA ListStep ==
    ASSUME IInv, NEW t \in Apps, List(t)
    PROVE  IInv'
<1> DEFINE x == job[t].con
           n == Len(hubList)
<1>1. /\ job[t].do = "post" /\ x \in Connections /\ Duplicates(t, x) = {}
      /\ hub \in {"run", "signalling", "signal", "ended"}
      /\ hubList' = Append(hubList, x) /\ keyed' = [keyed EXCEPT ![x] = TRUE]
      /\ job' = [job EXCEPT ![t].do = "start"]
      /\ UNCHANGED <<heap, ref, destroyed, pumpVars, hubVars, section, held, safe, offered, signals,
                     rel, crimes>>
  <2>1. job[t].con # None /\ job[t] \in Jobs
    BY DEF List, IInv, JobInv, TypeInv
  <2>2. hub \in {"run", "signalling", "signal", "ended"}
    BY ThreadsAssumption DEF List, HasRegistry, IInv, TypeInv
  <2> QED BY <2>1, <2>2 DEF List, Jobs
<1>2. /\ job' \in [Apps -> Jobs] /\ job'[t].con = x /\ job'[t].do = "start"
      /\ \A u \in Apps : u # t => job'[u] = job[u]
      /\ \A u \in Apps : job'[u].con = job[u].con
  BY <1>1 DEF IInv, TypeInv, Jobs
<1>3. /\ ~Dead(x) /\ heap[x] = "live" /\ ref[x] > 0 /\ x \in offered
  BY <1>1, HeldIsLive
<1>4. /\ recv[x] = "idle" /\ ~keyed[x]
      /\ \A i \in 1 .. Len(fifo) : fifo[i] # [con |-> x, msg |-> "startup"]
      /\ \A i \in 1 .. n : ~Claimed(hubList[i]) => hubList[i] \in held[t]
      /\ section = t /\ \A u \in Apps : u # t => job[u].do = "idle"
  BY <1>1 DEF IInv, JobInv
<1> HIDE DEF x
<1>5. /\ n \in Nat /\ Len(hubList') = n + 1 /\ hubList' \in Seq(Connections)
      /\ hubList'[n + 1] = x /\ \A i \in 1 .. n : hubList'[i] = hubList[i] /\ hubList[i] \in Connections
      /\ DOMAIN hubList' = 1 .. n + 1 /\ DOMAIN hubList = 1 .. n
  <2>1. hubList \in Seq(Connections)
    BY DEF IInv, TypeInv
  <2> QED BY <1>1, <2>1, AppendProperties, LenProperties
<1>6. \A c \in Connections : keyed'[c] <=> keyed[c] \/ c = x
  BY <1>1 DEF IInv, TypeInv
<1>7. \A i \in 1 .. n : hubList[i] # x
  BY <1>1, <1>4 DEF IInv, ListInv
<1>8. TypeInv'
  <2>1. keyed' \in [Connections -> BOOLEAN]
    BY <1>1 DEF IInv, TypeInv
  <2> QED BY <1>1, <1>2, <1>5, <2>1 DEF IInv, TypeInv, pumpVars, hubVars
<1>9. UNCHANGED <<heap, ref, destroyed, recv, port, fifo, hub, cursor, pins,
                  section, held, safe, offered, rel>>
  BY <1>1 DEF pumpVars, hubVars
<1>10. \A c \in Connections : Holders(c)' = Holders(c)
  <2>1. \A c \in Connections : {u \in Apps : job'[u].con = c} = {u \in Apps : job[u].con = c}
    BY <1>2
  <2> QED BY <1>9, <2>1 DEF Holders
<1>11. ASSUME NEW c \in Connections PROVE ConInv(c)'
  <2>1. RefInv(c)' /\ RecvInv(c)' /\ FreshInv(c)'
    BY <1>3, <1>6, <1>9, <1>10 DEF IInv, ConInv, RefInv, RecvInv, FreshInv
  <2>2. LastInv(c)'
    BY <1>2, <1>9 DEF IInv, ConInv, LastInv, Dead, Posted, Noted
  <2>3. RestInv(c)'
    BY <1>3, <1>6, <1>9 DEF IInv, ConInv, RestInv
  <2> QED BY <2>1, <2>2, <2>3 DEF ConInv
<1>12. ListInv'
  <2>1. \A i, j \in 1 .. n + 1 : hubList'[i] = hubList'[j] => i = j
    BY <1>5, <1>7 DEF IInv, ListInv
  <2>2. ASSUME NEW c \in Connections
        PROVE  keyed'[c] <=> \E i \in 1 .. n + 1 : hubList'[i] = c
    <3>1. keyed[c] <=> \E i \in 1 .. n : hubList[i] = c
      BY DEF IInv, ListInv
    <3>2. (\E i \in 1 .. n + 1 : hubList'[i] = c) <=> ((\E i \in 1 .. n : hubList[i] = c) \/ c = x)
      BY <1>5
    <3> QED BY <1>6, <3>1, <3>2
  <2>3. \A c \in Connections : keyed'[c] => heap'[c] = "live"
    BY <1>3, <1>6, <1>9 DEF IInv, ListInv
  <2> QED BY <1>5, <2>1, <2>2, <2>3 DEF ListInv
<1>13. NoTwins'
  <2>1. \A i \in 1 .. n : ~Claimed(hubList[i]) => Address[hubList[i]] # Address[x]
    BY <1>1, <1>4 DEF Duplicates, x
  <2>2. \A c \in Connections : Claimed(c)' <=> Claimed(c)
    BY <1>9 DEF Claimed
  <2>3. \A i, j \in 1 .. n : i # j /\ ~Claimed(hubList[i]) /\ ~Claimed(hubList[j]) =>
          Address[hubList[i]] # Address[hubList[j]]
    BY <1>5 DEF IInv, NoTwins
  <2>4. ASSUME NEW i \in 1 .. n + 1, NEW j \in 1 .. n + 1, i # j,
               ~Claimed(hubList'[i]), ~Claimed(hubList'[j])
        PROVE  Address[hubList'[i]] # Address[hubList'[j]]
    <3>1. CASE i \in 1 .. n /\ j \in 1 .. n
      BY <1>5, <2>3, <2>4, <3>1
    <3>2. CASE i = n + 1 /\ j \in 1 .. n
      BY <1>5, <2>1, <2>4, <3>2
    <3>3. CASE j = n + 1 /\ i \in 1 .. n
      BY <1>5, <2>1, <2>4, <3>3
    <3> QED BY <1>5, <2>4, <3>1, <3>2, <3>3
  <2>5. \A i \in 1 .. n + 1 : Claimed(hubList[i])' <=> Claimed(hubList'[i])
    BY <1>9 DEF Claimed
  <2> QED BY <1>5, <2>4, <2>5 DEF NoTwins
<1>14. RelInv' /\ PhaseInv'
  BY <1>1, <1>9 DEF IInv, RelInv, PhaseInv, Dead
<1>15. JobInv'
  BY <1>1, <1>2, <1>3, <1>4, <1>9 DEF IInv, JobInv, x
<1>16. WalkInv'
  <2>1. \A c \in Connections : Before(c, cursor) => Before(c, cursor)'
    BY <1>5, <1>9 DEF Before
  <2>2. \A c \in Connections : (Dead(c)' <=> Dead(c)) /\ (Posted(c)' <=> Posted(c))
    BY <1>9 DEF Dead, Posted
  <2>3. cursor \in Connections \cup {None} /\ cursor' = cursor
    BY <1>9 DEF IInv, TypeInv
  <2>4. ASSUME NEW c \in Connections, hub' \in {"signalling", "signal"}, Dead(c)', Posted(c)', keyed'[c]
        PROVE  cursor # None /\ (~keyed[cursor] \/ Before(c, cursor) \/ (c = cursor /\ hub' = "signalling"))
    BY <1>3, <1>6, <1>9, <2>2, <2>4 DEF IInv, WalkInv
  <2>6. cursor \in Connections /\ ~keyed[cursor] /\ keyed'[cursor] => cursor = x
    BY <1>6
  <2>7. hub \in {"signalling", "signal"} /\ cursor # None /\ ~keyed[cursor] => heap[cursor] = "freed"
    BY DEF IInv, WalkInv
  <2>8. hub \in {"signalling", "signal"} /\ cursor # None => (keyed'[cursor] <=> keyed[cursor])
    BY <1>3, <1>6, <2>3, <2>7
  <2>9. ASSUME hub' \in {"signalling", "signal"}
        PROVE  /\ hub' = "signal" => cursor' \in Connections
               /\ cursor' # None => keyed'[cursor'] \/ heap'[cursor'] = "freed"
    BY <1>9, <2>3, <2>8, <2>9 DEF IInv, WalkInv
  <2>10. ASSUME NEW c \in Connections, hub' \in {"signalling", "signal"}, Dead(c)', Posted(c)', keyed'[c]
        PROVE  cursor' # None /\ (~keyed'[cursor'] \/ Before(c, cursor)' \/ (c = cursor' /\ hub' = "signalling"))
    <3>1. cursor \in Connections
      BY <2>3, <2>4, <2>10
    <3> QED BY <1>9, <2>1, <2>3, <2>4, <2>8, <2>10, <3>1
  <2> QED BY <2>9, <2>10 DEF WalkInv
<1> QED BY <1>8, <1>11, <1>12, <1>13, <1>14, <1>15, <1>16 DEF IInv

\* An application enters the hub, to walk or to post: all that is listed is retained.
LEMMA EnterStep ==
    ASSUME IInv, NEW t \in Apps,
           BeginWalk(t) \/ \E y \in Connections : BeginPost(t, y)
    PROVE  IInv'
<1>1. /\ job[t] = Idle /\ section = None /\ section' = t /\ hub' = hub
      /\ held' = [held EXCEPT ![t] = Retained]
      /\ UNCHANGED <<heap, destroyed, pumpVars, regVars, hubVars, safe, signals, rel, crimes>>
  BY DEF BeginWalk, BeginPost, Enters, Retain, hubVars
<1>2. PICK x \in Connections \cup {None} :
        /\ ref' = [c \in Connections |-> ref[c] + Holds(Retained, c) + Is(x, c)]
        /\ job'[t].con = x /\ job' \in [Apps -> Jobs] /\ \A u \in Apps : u # t => job'[u] = job[u]
        /\ job'[t].do = (IF x = None THEN "walk" ELSE "post")
        /\ offered' = offered \cup ({x} \ {None})
        /\ x # None => x \notin offered /\ x \notin Retained
  <2>1. CASE BeginWalk(t)
    <3>1. [job EXCEPT ![t].do = "walk"] \in [Apps -> Jobs] /\ job' = [job EXCEPT ![t].do = "walk"]
      BY <2>1 DEF BeginWalk, IInv, TypeInv, Jobs
    <3>2. job'[t].con = None /\ job'[t].do = "walk"
      BY <1>1, <3>1 DEF Idle, IInv, TypeInv, Jobs
    <3>3. ref' = [c \in Connections |-> ref[c] + (IF c \in Retained THEN 1 ELSE 0)]
      BY <2>1 DEF BeginWalk, Retain
    <3>4. \A c \in Connections : Is(None, c) = 0 /\ ref[c] \in Int
      BY ThreadsAssumption DEF Is, IInv, TypeInv
    <3>5. ref' = [c \in Connections |-> ref[c] + Holds(Retained, c) + Is(None, c)]
      BY <3>3, <3>4 DEF Holds
    <3> QED BY <2>1, <3>1, <3>2, <3>5 DEF BeginWalk
  <2>2. ASSUME NEW y \in Connections, BeginPost(t, y)
        PROVE  /\ ref' = [c \in Connections |-> ref[c] + Holds(Retained, c) + Is(y, c)]
               /\ job'[t].con = y /\ job' \in [Apps -> Jobs] /\ \A u \in Apps : u # t => job'[u] = job[u]
               /\ job'[t].do = "post"
               /\ offered' = offered \cup {y} /\ y \notin offered /\ y \notin Retained /\ y # None
    <3>1. y \notin offered /\ ~keyed[y] /\ y # None
      BY <2>2, ThreadsAssumption DEF BeginPost, IInv, ConInv, FreshInv
    <3>2. DOMAIN hubList = 1 .. Len(hubList)
      BY LenProperties DEF IInv, TypeInv
    <3>3. y \notin Retained
      BY <3>1, <3>2 DEF Retained, ToSet, IInv, ListInv
    <3>4. \A c \in Connections : (IF c \in Retained \cup {y} THEN 1 ELSE 0) = Holds(Retained, c) + Is(y, c)
      BY <3>3 DEF Holds, Is
    <3>5. ref' = [c \in Connections |-> ref[c] + (IF c \in Retained \cup {y} THEN 1 ELSE 0)]
      BY <2>2 DEF BeginPost
    <3>6. \A c \in Connections : ref[c] + (Holds(Retained, c) + Is(y, c)) = ref[c] + Holds(Retained, c) + Is(y, c)
      BY DEF Holds, Is, IInv, TypeInv
    <3>7. ref' = [c \in Connections |-> ref[c] + Holds(Retained, c) + Is(y, c)]
      BY <3>4, <3>5, <3>6
    <3>8. [do |-> "post", con |-> y] \in Jobs /\ job' = [job EXCEPT ![t] = [do |-> "post", con |-> y]]
      BY <2>2 DEF BeginPost, Jobs
    <3> QED BY <2>2, <3>1, <3>3, <3>7, <3>8 DEF BeginPost, IInv, TypeInv
  <2>3. CASE \E y \in Connections : BeginPost(t, y)
    BY <2>2, <2>3
  <2> QED BY <2>1, <2>3
<1>3. /\ Retained \in SUBSET Connections
      /\ \A c \in Retained : keyed[c] /\ heap[c] = "live" /\ ref[c] >= 0 /\ ~Dead(c) /\ c \in offered
      /\ \A i \in 1 .. Len(hubList) : hubList[i] \in Connections
                                      /\ (~Claimed(hubList[i]) => hubList[i] \in Retained)
  <2>1. hubList \in [1 .. Len(hubList) -> Connections] /\ ref \in [Connections -> Int]
    BY LenProperties DEF IInv, TypeInv
  <2>2. \A i \in 1 .. Len(hubList) : keyed[hubList[i]]
    BY <2>1 DEF IInv, ListInv
  <2> QED BY <2>1, <2>2 DEF Retained, ToSet, IInv, ListInv, Dead, Claimed, ConInv, FreshInv
<1>4. /\ \A u \in Apps : job[u].do = "idle" /\ job[u].con = None
      /\ held[t] = {}
  BY <1>1, ThreadsAssumption DEF IInv, JobInv, Threads
<1>5. /\ held' \in [Apps -> SUBSET Connections] /\ held'[t] = Retained
      /\ \A u \in Apps : u # t => held'[u] = held[u]
  BY <1>1, <1>3 DEF IInv, TypeInv
<1>6. /\ ref' \in [Connections -> Int]
      /\ \A c \in Connections : ref'[c] = ref[c] + Holds(Retained, c) + Is(x, c)
      /\ \A c \in Connections : /\ Holds(Retained, c) \in {0, 1} /\ Is(x, c) \in {0, 1} /\ ref[c] \in Int
                                /\ Holds(Retained, c) = 0 \/ Is(x, c) = 0
  BY <1>2, ThreadsAssumption DEF IInv, TypeInv, Holds, Is
<1> HIDE DEF Retained
<1>7. TypeInv'
  BY <1>1, <1>2, <1>5, <1>6 DEF IInv, TypeInv, pumpVars, regVars, hubVars
<1>8. Balanced
  <2> SUFFICES ASSUME NEW c \in Connections
               PROVE  Holders(c)' - Holders(c) = ref'[c] - ref[c] /\ ref'[c] <= ref[c] + 1
    BY <1>1 DEF Balanced
  <2>1. Walks(c)' - Walks(c) = Holds(Retained, c)
    <3>1. Walks(c)' - Walks(c) = Holds(Retained, c) - Holds(held[t], c)
      BY <1>1, WalkMoves DEF IInv
    <3> QED BY <1>4, <1>6, <3>1 DEF Holds
  <2>2. Posts(c)' - Posts(c) = Is(x, c)
    <3>1. job' = [job EXCEPT ![t] = job'[t]]
      BY <1>2 DEF IInv, TypeInv
    <3>2. Posts(c)' - Posts(c) = Is(job'[t].con, c) - Is(job[t].con, c)
      BY <3>1, PostMoves DEF IInv
    <3> QED BY <1>2, <1>4, <1>6, <3>2, ThreadsAssumption DEF Is
  <2>3. /\ Ports(c)' - Ports(c) = 0 /\ Keeps(c)' - Keeps(c) = 0 /\ Notices(c)' - Notices(c) = 0
        /\ Flights(c)' - Flights(c) = 0 /\ Pins(c)' - Pins(c) = 0 /\ Downs(c)' - Downs(c) = 0
    BY <1>1, Same DEF hubVars, pumpVars, IInv
  <2>4. Holders(c)' - Holders(c) = Holds(Retained, c) + Is(x, c)
    BY <1>6, <1>7, <2>1, <2>2, <2>3, Shift DEF IInv
  <2>5. ref'[c] - ref[c] = Holds(Retained, c) + Is(x, c) /\ ref'[c] <= ref[c] + 1
    BY <1>6
  <2> QED BY <2>4, <2>5
<1>9. \A c \in Connections : RefInv(c)' /\ (Dead(c)' <=> Dead(c))
  BY <1>7, <1>8, Counted
<1>10. Steady
  BY <1>1, <1>9 DEF Steady
<1>11. x # None =>
         /\ x \in Connections /\ heap[x] = "live" /\ ref[x] = 0 /\ ~keyed[x] /\ recv[x] = "idle" /\ ~Dead(x)
         /\ \A i \in 1 .. Len(fifo) : fifo[i] # [con |-> x, msg |-> "startup"]
  <2> SUFFICES ASSUME x # None
               PROVE  /\ x \in Connections /\ heap[x] = "live" /\ ref[x] = 0 /\ ~keyed[x] /\ recv[x] = "idle" /\ ~Dead(x)
                      /\ \A i \in 1 .. Len(fifo) : fifo[i] # [con |-> x, msg |-> "startup"]
    OBVIOUS
  <2>1. x \in Connections /\ heap[x] = "live" /\ ref[x] = 0 /\ ~keyed[x] /\ recv[x] = "idle"
    BY <1>2 DEF IInv, ConInv, FreshInv
  <2>2. Holders(x) = 0
    BY <2>1 DEF IInv, ConInv, RefInv
  <2>3. ~Noted(x)
    BY <2>1, <2>2, NoneLeft DEF IInv
  <2> QED BY <2>1, <2>3 DEF Noted, Dead
<1>12. ASSUME NEW c \in Connections PROVE ConInv(c)'
  <2>1. LastInv(c)'
    <3>1. CASE Dead(c)
      <4>1. c \notin Retained /\ c # x
        BY <1>3, <1>11, <3>1, ThreadsAssumption
      <4> QED BY <1>1, <1>2, <1>5, <1>9, <3>1, <4>1
           DEF IInv, ConInv, LastInv, Posted, Noted, pumpVars, hubVars
    <3> QED BY <1>9, <3>1 DEF LastInv
  <2>2. RecvInv(c)'
    BY <1>1 DEF IInv, ConInv, RecvInv, pumpVars
  <2>3. FreshInv(c)'
    <3>1. CASE c \notin offered'
      <4>1. c \notin offered /\ c \notin Retained /\ c # x
        BY <1>2, <1>3, <3>1, ThreadsAssumption
      <4>2. ref'[c] = ref[c]
        BY <1>6, <4>1 DEF Holds, Is
      <4> QED BY <1>1, <4>1, <4>2 DEF IInv, ConInv, FreshInv, pumpVars, regVars
    <3> QED BY <3>1 DEF FreshInv
  <2>4. RestInv(c)'
    <3>1. CASE c \in offered
      <4>1. ref'[c] = ref[c] \/ (ref[c] # 0 /\ ref'[c] # 0) \/ (ref[c] = 0 /\ ref'[c] > 0)
        <5>1. c # x
          BY <1>2, <3>1, ThreadsAssumption
        <5>2. CASE c \in Retained
          <6>1. ref[c] >= 0
            BY <1>3, <5>2
          <6> QED BY <1>6, <5>1, <5>2, <6>1 DEF Is, Holds
        <5>3. CASE c \notin Retained
          BY <1>6, <5>1, <5>3 DEF Is, Holds
        <5> QED BY <5>2, <5>3
      <4> QED BY <1>1, <1>10, <3>1, <4>1, KeepRest DEF regVars
    <3>2. CASE c \notin offered /\ c \in offered'
      <4>1. c = x /\ x # None
        BY <1>2, <3>2
      <4>2. ref'[c] = 1
        BY <1>2, <1>6, <1>11, <4>1 DEF Holds, Is
      <4> QED BY <4>2 DEF RestInv
    <3> QED BY <3>1, <3>2 DEF RestInv
  <2> QED BY <1>9, <2>1, <2>2, <2>3, <2>4 DEF ConInv
<1>13. ListInv' /\ NoTwins'
  BY <1>1, <1>10, KeepList DEF regVars
<1>14. RelInv' /\ PhaseInv'
  BY <1>1, <1>9 DEF IInv, RelInv, PhaseInv, regVars, hubVars
<1>15. JobInv'
  <2>1. ASSUME NEW u \in Apps, u # t PROVE job'[u].do = "idle" /\ job'[u].con = None /\ held'[u] = {}
    BY <1>2, <1>4, <1>5, <2>1 DEF IInv, JobInv
  <2>3. \A i \in 1 .. Len(hubList) : ~Claimed(hubList[i])' => hubList[i] \in Retained
    <3> SUFFICES ASSUME NEW i \in 1 .. Len(hubList), ~Claimed(hubList[i])'
                 PROVE  ~Claimed(hubList[i])
      BY <1>3
    <3>1. hubList[i] \in Connections /\ heap[hubList[i]] = "live" /\ hubList' = hubList /\ heap' = heap
      BY <1>1, <1>3 DEF IInv, ListInv, regVars
    <3>2. Dead(hubList[i])' <=> Dead(hubList[i])
      BY <1>1, <1>9, <3>1 DEF Dead
    <3> QED BY <3>1, <3>2 DEF Dead, Claimed
  <2>4. /\ section' = t /\ job'[t].con = x /\ (x # None => x \in offered')
        /\ job'[t].do = (IF x = None THEN "walk" ELSE "post")
    BY <1>1, <1>2
  <2>5. UNCHANGED <<recv, fifo, keyed, hubList>>
    BY <1>1 DEF pumpVars, regVars
  <2>6. CASE x = None
    BY <2>1, <2>4, <2>6 DEF JobInv
  <2>7. CASE x # None
    BY <1>5, <1>11, <2>1, <2>3, <2>4, <2>5, <2>7 DEF JobInv
  <2> QED BY <2>6, <2>7
<1>16. WalkInv'
  BY <1>1, <1>10, KeepWalk DEF regVars, hubVars, pumpVars, Posted
<1> QED BY <1>7, <1>12, <1>13, <1>14, <1>15, <1>16 DEF IInv

-------------------------------------------------------------------------------
(* The four steps of a Release.                                            *)

LEMMA DecrementStep ==
    ASSUME IInv, NEW t \in Threads, Decrement(t)
    PROVE  IInv'
<1> DEFINE x == rel[t].con
           r == IF ref[x] - 1 > 0 THEN Returned ELSE [con |-> x, at |-> "look", seen |-> ref[x] - 1]
<1>1. /\ rel[t].at = "down" /\ x \in Connections /\ ref[x] \in Int /\ x \in offered
      /\ ref' = [ref EXCEPT ![x] = @ - 1] /\ rel' = [rel EXCEPT ![t] = r]
      /\ UNCHANGED <<heap, destroyed, pumpVars, regVars, hubVars, appVars>>
  BY DEF Decrement, IInv, RelInv, TypeInv, ConInv, FreshInv
<1>2. r \in Releases /\ r.at # "down" /\ r.at # "drop" /\ r.at # "claim"
      /\ (r.at # "none" => r.at = "look" /\ r.con = x /\ r.seen = ref[x] - 1 /\ r.seen <= 0)
      /\ (ref[x] - 1 <= 0 => r.at = "look")
      /\ (r.con = x \/ r.con = None)
  <2>1. CASE ref[x] - 1 > 0
    BY <1>1, <2>1 DEF Returned, Releases
  <2>2. CASE ~(ref[x] - 1 > 0)
    BY <1>1, <2>2 DEF Returned, Releases
  <2> QED BY <2>1, <2>2
<1> HIDE DEF r, x
<1>3. /\ rel'[t] = r /\ \A u \in Threads : u # t => rel'[u] = rel[u]
      /\ ref' \in [Connections -> Int] /\ ref'[x] = ref[x] - 1 /\ ref \in [Connections -> Int]
      /\ \A c \in Connections : c # x => ref'[c] = ref[c]
  BY <1>1, <1>2 DEF IInv, TypeInv
<1>4. TypeInv'
  BY <1>1, <1>2, <1>3 DEF IInv, TypeInv, pumpVars, regVars, hubVars, appVars
<1>5. Balanced
  <2> SUFFICES ASSUME NEW c \in Connections
               PROVE  Holders(c)' - Holders(c) = ref'[c] - ref[c] /\ ref'[c] <= ref[c] + 1
    BY <1>1 DEF Balanced
  <2>1. Downs(c)' - Downs(c) = 0 - Is(x, c)
    <3>1. Downs(c)' - Downs(c) = IsDown(r, c) - IsDown(rel[t], c)
      BY <1>1, DownMoves DEF IInv
    <3>2. IsDown(r, c) = 0 /\ IsDown(rel[t], c) = Is(x, c)
      BY <1>1, <1>2 DEF IsDown, Is, x
    <3> QED BY <3>1, <3>2
  <2>2. /\ Ports(c)' - Ports(c) = 0 /\ Keeps(c)' - Keeps(c) = 0 /\ Notices(c)' - Notices(c) = 0
        /\ Flights(c)' - Flights(c) = 0 /\ Pins(c)' - Pins(c) = 0 /\ Walks(c)' - Walks(c) = 0
        /\ Posts(c)' - Posts(c) = 0
    BY <1>1, Same DEF hubVars, pumpVars, appVars, IInv
  <2>3. Holders(c)' - Holders(c) = 0 - Is(x, c)
    BY <1>4, <2>1, <2>2, Shift DEF IInv, Is
  <2>4. ref'[c] - ref[c] = 0 - Is(x, c) /\ ref[c] \in Int /\ ref'[c] \in Int
    BY <1>3 DEF Is
  <2> QED BY <2>3, <2>4 DEF Is
<1>6. \A c \in Connections : RefInv(c)' /\ (Dead(c)' <=> Dead(c))
  BY <1>4, <1>5, Counted
<1>7. Steady
  BY <1>1, <1>6 DEF Steady
<1>8. ASSUME NEW c \in Connections PROVE ConInv(c)'
  <2>1. LastInv(c)'
    <3>1. CASE Dead(c)
      <4>1. \A u \in Threads : rel'[u].at = "down" => rel'[u] = rel[u]
        BY <1>2, <1>3
      <4> QED BY <1>1, <1>6, <3>1, <4>1
           DEF IInv, ConInv, LastInv, Posted, Noted, pumpVars, hubVars, appVars, Threads
    <3> QED BY <1>6, <3>1 DEF LastInv
  <2>2. RecvInv(c)'
    BY <1>1 DEF IInv, ConInv, RecvInv, pumpVars
  <2>3. FreshInv(c)'
    <3>1. CASE c \notin offered
      <4>1. c # x /\ c # None
        BY <1>1, <3>1, ThreadsAssumption
      <4> QED BY <1>1, <1>2, <1>3, <3>1, <4>1 DEF IInv, ConInv, FreshInv, pumpVars, regVars, appVars
    <3> QED BY <1>1, <3>1 DEF FreshInv, appVars
  <2>4. RestInv(c)'
    <3>1. UNCHANGED <<heap, destroyed, keyed, offered>>
      BY <1>1 DEF regVars, appVars
    <3>2. CASE c # x \/ ref'[c] < 0
      <4>1. ref'[c] = ref[c] \/ ref'[c] < 0
        BY <1>3, <3>2
      <4>2. \A u \in Threads : rel[u].at \in {"look", "claim", "drop"} => rel'[u] = rel[u]
        BY <1>1, <1>3
      <4>3. heap[c] = "live" => (ref'[c] < 0 <=> ref[c] < 0)
        BY <1>6, <3>1 DEF Dead
      <4>4. RestInv(c) /\ ref'[c] \in Int
        BY <1>3 DEF IInv, ConInv
      <4> QED BY <3>1, <4>1, <4>2, <4>3, <4>4 DEF RestInv
    <3>3. CASE c = x /\ ~(ref'[c] < 0)
      <4>1. ref'[c] = 0 => rel'[t].con = c /\ rel'[t].at \in {"look", "claim"} /\ rel'[t].seen = 0
        BY <1>2, <1>3, <3>3
      <4> QED BY <3>3, <4>1 DEF RestInv
    <3> QED BY <3>2, <3>3
  <2> QED BY <1>6, <2>1, <2>2, <2>3, <2>4 DEF ConInv
<1>9. ListInv' /\ NoTwins'
  BY <1>1, <1>7, KeepList DEF regVars
<1>10. RelInv'
  <2>1. \A u \in Threads : (rel'[u] = rel[u] \/ (u = t /\ rel'[u] = r))
    BY <1>3
  <2>2. \A c \in Connections : Dead(c)' <=> Dead(c)
    BY <1>6
  <2> QED BY <1>1, <1>2, <2>1, <2>2 DEF IInv, RelInv
<1>11. PhaseInv'
  BY <1>1 DEF IInv, PhaseInv, regVars, hubVars
<1>12. JobInv'
  BY <1>1, <1>7, KeepJob DEF IInv, JobInv, regVars, appVars, pumpVars
<1>13. WalkInv'
  BY <1>1, <1>7, KeepWalk DEF regVars, hubVars, pumpVars, Posted
<1> QED BY <1>4, <1>8, <1>9, <1>10, <1>11, <1>12, <1>13 DEF IInv

LEMMA LookStep ==
    ASSUME IInv, NEW t \in Threads, Look(t)
    PROVE  IInv'
<1> DEFINE x == rel[t].con
           gone == destroyed[x] \/ ~keyed[x]
           r == IF gone /\ ~Freed(x) THEN [rel[t] EXCEPT !.at = "claim"] ELSE Returned
<1>1. /\ rel[t].at = "look" /\ x \in Connections /\ rel[t] \in Releases /\ rel[t].seen <= 0
      /\ destroyed' = [destroyed EXCEPT ![x] = gone] /\ rel' = [rel EXCEPT ![t] = r]
      /\ UNCHANGED <<heap, ref, pumpVars, regVars, hubVars, appVars>>
  BY DEF Look, IInv, RelInv, TypeInv
<1>2. /\ r \in Releases /\ r.at \in {"none", "claim"} /\ (r.con = x \/ r.con = None)
      /\ r.at = "claim" => r.con = x /\ r.seen = rel[t].seen
      /\ heap[x] = "live" /\ gone => r.at = "claim"
  <2>1. CASE gone /\ ~Freed(x)
    BY <1>1, <2>1 DEF Releases
  <2>2. CASE ~(gone /\ ~Freed(x))
    BY <1>1, <2>2 DEF Returned, Releases, Freed
  <2> QED BY <2>1, <2>2
<1>3. /\ destroyed' \in [Connections -> BOOLEAN] /\ (destroyed'[x] <=> gone)
      /\ \A c \in Connections : c # x => destroyed'[c] = destroyed[c]
      /\ \A c \in Connections : destroyed[c] => destroyed'[c]
  BY <1>1 DEF IInv, TypeInv
<1>4. gone <=> destroyed[x] \/ ~keyed[x]
  OBVIOUS
<1> HIDE DEF r, gone
<1>5. rel'[t] = r /\ \A u \in Threads : u # t => rel'[u] = rel[u]
  BY <1>1, <1>2 DEF IInv, TypeInv
<1>6. TypeInv'
  BY <1>1, <1>2, <1>3 DEF IInv, TypeInv, pumpVars, regVars, hubVars, appVars
<1>7. UNCHANGED <<heap, ref, recv, port, fifo, keyed, hubList, hub, cursor, pins,
                  section, job, held, safe, offered>>
  BY <1>1 DEF pumpVars, regVars, hubVars, appVars
<1>8. \A c \in Connections : Holders(c)' = Holders(c)
  <2>1. \A c \in Connections : {u \in Threads : rel'[u].con = c /\ rel'[u].at = "down"}
                             = {u \in Threads : rel[u].con = c /\ rel[u].at = "down"}
    BY <1>1, <1>2, <1>5
  <2> QED BY <1>7, <2>1 DEF Holders
<1>9. ASSUME NEW c \in Connections PROVE ConInv(c)'
  <2>1. RefInv(c)' /\ RecvInv(c)'
    BY <1>7, <1>8 DEF IInv, ConInv, RefInv, RecvInv
  <2>2. \A u \in Threads : rel'[u].at = "down" => rel'[u] = rel[u]
    BY <1>2, <1>5
  <2>3. LastInv(c)'
    BY <1>7, <2>2 DEF IInv, ConInv, LastInv, Dead, Posted, Noted, Threads
  <2>4. FreshInv(c)'
    BY <1>2, <1>5, <1>7, ThreadsAssumption DEF IInv, ConInv, FreshInv, x
  <2>5. RestInv(c)'
    <3>1. ASSUME heap[c] = "live", c \in offered, ref[c] < 0
          PROVE  \E u \in Threads : rel'[u].con = c /\ rel'[u].at = "drop"
      <4>1. PICK u \in Threads : rel[u].con = c /\ rel[u].at = "drop"
        BY <3>1 DEF IInv, ConInv, RestInv
      <4> QED BY <1>1, <1>5, <4>1
    <3>2. ASSUME heap[c] = "live", c \in offered, ref[c] = 0
          PROVE  \/ keyed[c] /\ ~destroyed'[c]
                 \/ \E u \in Threads : rel'[u].con = c /\ rel'[u].at \in {"look", "claim"}
                                       /\ rel'[u].seen = 0
      <4>1. CASE keyed[c] /\ ~destroyed[c]
        BY <1>3, <1>4, <4>1
      <4>2. CASE ~(keyed[c] /\ ~destroyed[c])
        <5>1. PICK u \in Threads : rel[u].con = c /\ rel[u].at \in {"look", "claim"} /\ rel[u].seen = 0
          BY <3>2, <4>2 DEF IInv, ConInv, RestInv
        <5>2. CASE u = t
          <6>1. c = x
            BY <5>1, <5>2 DEF x
          <6>2. rel'[t].at = "claim" /\ rel'[t].con = c /\ rel'[t].seen = 0
            BY <1>2, <1>4, <1>5, <3>2, <4>2, <5>1, <5>2, <6>1
          <6> QED BY <6>2
        <5>3. CASE u # t
          BY <1>5, <5>1, <5>3
        <5> QED BY <5>2, <5>3
      <4> QED BY <4>1, <4>2
    <3> QED BY <1>7, <3>1, <3>2 DEF RestInv
  <2> QED BY <2>1, <2>3, <2>4, <2>5 DEF ConInv
<1>10. ListInv' /\ NoTwins' /\ JobInv'
  BY <1>7 DEF IInv, ListInv, NoTwins, JobInv, Claimed
<1>11. RelInv'
  <2>1. \A u \in Threads : (rel'[u] = rel[u] \/ (u = t /\ rel'[u] = r))
    BY <1>5
  <2>2. \A c : Dead(c)' <=> Dead(c)
    BY <1>7 DEF Dead
  <2> QED BY <1>1, <1>2, <2>1, <2>2 DEF IInv, RelInv
<1>12. PhaseInv' /\ WalkInv'
  BY <1>3, <1>7 DEF IInv, PhaseInv, WalkInv, Dead, Posted, Before
<1> QED BY <1>6, <1>9, <1>10, <1>11, <1>12 DEF IInv

LEMMA ClaimStep ==
    ASSUME IInv, NEW t \in Threads, Claim(t)
    PROVE  IInv'
<1> DEFINE x == rel[t].con
           won == ref[x] = rel[t].seen /\ ~Freed(x)
           r == IF won THEN [rel[t] EXCEPT !.at = "drop"] ELSE Returned
<1>1. /\ rel[t].at = "claim" /\ x \in Connections /\ rel[t] \in Releases /\ rel[t].seen <= 0
      /\ x \in offered /\ rel' = [rel EXCEPT ![t] = r]
      /\ ref' = (IF won THEN [ref EXCEPT ![x] = Dying] ELSE ref)
      /\ UNCHANGED <<heap, destroyed, pumpVars, regVars, hubVars, appVars>>
  BY DEF Claim, IInv, RelInv, TypeInv, ConInv, FreshInv
<1>2. /\ r \in Releases /\ (r.con = x \/ r.con = None)
      /\ r.at = IF won THEN "drop" ELSE "none"
      /\ won => r.con = x
  <2>1. CASE won
    BY <1>1, <2>1 DEF Releases
  <2>2. CASE ~won
    BY <1>1, <2>2 DEF Returned, Releases
  <2> QED BY <2>1, <2>2
<1>3. /\ ref' \in [Connections -> Int] /\ (won => ref'[x] = Dying) /\ (~won => ref'[x] = ref[x])
      /\ \A c \in Connections : c # x => ref'[c] = ref[c]
      /\ ref \in [Connections -> Int]
  BY <1>1 DEF IInv, TypeInv, Dying
<1>4. won => ref[x] = rel[t].seen /\ heap[x] = "live" /\ ref[x] <= 0
  BY <1>1 DEF Freed, IInv, TypeInv
<1>5. ~won /\ heap[x] = "live" => ref[x] # rel[t].seen
  BY DEF Freed
<1> HIDE DEF r, won
<1>6. rel'[t] = r /\ \A u \in Threads : u # t => rel'[u] = rel[u]
  BY <1>1, <1>2 DEF IInv, TypeInv
<1>7. TypeInv'
  BY <1>1, <1>2, <1>3, <1>6 DEF IInv, TypeInv, pumpVars, regVars, hubVars, appVars
<1>8. UNCHANGED <<heap, destroyed, recv, port, fifo, keyed, hubList, hub, cursor, pins,
                  section, job, held, safe, offered>>
  BY <1>1 DEF pumpVars, regVars, hubVars, appVars
<1>9. \A c \in Connections : Holders(c)' = Holders(c)
  <2>1. \A c \in Connections : {u \in Threads : rel'[u].con = c /\ rel'[u].at = "down"}
                             = {u \in Threads : rel[u].con = c /\ rel[u].at = "down"}
    BY <1>1, <1>2, <1>6
  <2> QED BY <1>8, <2>1 DEF Holders
<1>10. won /\ ~Dead(x) => Holders(x) = 0 /\ ref[x] = 0
  <2> SUFFICES ASSUME won, ~Dead(x) PROVE Holders(x) = 0 /\ ref[x] = 0
    OBVIOUS
  <2>1. heap[x] = "live" /\ ~(ref[x] < 0) /\ ref[x] = 0
    BY <1>1, <1>3, <1>4 DEF Dead
  <2> QED BY <1>1, <2>1 DEF IInv, ConInv, RefInv
<1>11. /\ \A c \in Connections : Dead(c) => Dead(c)'
       /\ \A c \in Connections : Dead(c)' => Dead(c) \/ (c = x /\ won)
       /\ won => heap'[x] = "freed" \/ ref'[x] < 0
  <2>1. Dying < 0 /\ heap' = heap
    BY <1>8 DEF Dying
  <2>2. \A c \in Connections : Dead(c)' <=> heap[c] = "freed" \/ ref'[c] < 0
    BY <2>1 DEF Dead
  <2>3. \A c \in Connections : ref'[c] = ref[c] \/ (c = x /\ won /\ ref'[c] < 0)
    BY <1>3, <2>1
  <2> QED BY <1>3, <2>1, <2>2, <2>3 DEF Dead
<1>12. ASSUME NEW c \in Connections PROVE ConInv(c)'
  <2>1. RefInv(c)'
    <3>1. CASE c = x /\ won
      <4>1. Holders(c)' \in Nat /\ ref'[c] = Dying
        BY <1>3, <1>7, <3>1, PartsNext DEF HoldersNat
      <4> DEFINE h == Holders(c)'
      <4>2. h \in Nat
        BY <4>1
      <4> HIDE DEF h
      <4>3. Dying <= Dying + h /\ Dying < 0
        BY <4>2 DEF Dying
      <4>4. ref'[c] < 0 /\ ref'[c] <= Dying + h
        BY <4>1, <4>3
      <4> QED BY <4>4 DEF RefInv, h, Dying
    <3>2. CASE ~(c = x /\ won)
      <4>1. ref'[c] = ref[c] /\ heap' = heap
        BY <1>3, <1>8, <3>2
      <4> QED BY <1>9, <4>1 DEF IInv, ConInv, RefInv
    <3> QED BY <3>1, <3>2
  <2>2. RecvInv(c)'
    BY <1>8 DEF IInv, ConInv, RecvInv
  <2>3. \A u \in Threads : rel'[u].at = "down" => rel'[u] = rel[u]
    BY <1>2, <1>6
  <2>4. LastInv(c)'
    <3>1. CASE Dead(c)
      BY <1>8, <2>3, <3>1 DEF IInv, ConInv, LastInv, Posted, Noted, Threads
    <3>2. CASE ~Dead(c) /\ Dead(c)'
      <4>1. c = x /\ Holders(c) = 0
        BY <1>10, <1>11, <3>2
      <4>2. /\ ~Posted(c) /\ ~Noted(c) /\ recv[c] # "flying"
            /\ \A u \in Apps : c \notin held[u] /\ safe[u] # c /\ job[u].con # c
            /\ \A u \in Threads : rel[u].con = c => rel[u].at # "down"
        BY <4>1, NoneLeft DEF IInv
      <4>3. \A i \in 1 .. Len(port') : port'[i].con # c
        BY <1>8, <4>2 DEF Posted
      <4>4. \A u \in Threads : rel'[u].con = c => rel'[u].at # "down"
        BY <2>3, <4>2
      <4>5. \A u \in Apps : u \in Threads
        BY DEF Threads
      <4>6. Hub \in Threads
        BY DEF Threads
      <4> QED BY <1>8, <4>2, <4>3, <4>4, <4>5, <4>6 DEF LastInv, Posted, Noted
    <3> QED BY <3>1, <3>2 DEF LastInv
  <2>5. FreshInv(c)'
    <3>1. CASE c \notin offered
      <4>1. c # x /\ c # None
        BY <1>1, <3>1, ThreadsAssumption
      <4> QED BY <1>2, <1>3, <1>6, <1>8, <3>1, <4>1 DEF IInv, ConInv, FreshInv
    <3> QED BY <1>8, <3>1 DEF FreshInv
  <2>6. RestInv(c)'
    <3>1. CASE c = x /\ won
      <4>1. rel'[t].con = c /\ rel'[t].at = "drop" /\ ref'[c] = Dying
        BY <1>2, <1>3, <1>6, <3>1
      <4> QED BY <4>1 DEF RestInv, Dying
    <3>2. CASE c = x /\ ~won
      <4>1. ref'[c] = ref[c] /\ RestInv(c)
        BY <1>3, <3>2 DEF IInv, ConInv
      <4>2. \A u \in Threads : rel[u].con = c /\ rel[u].at = "drop" => rel'[u] = rel[u]
        BY <1>1, <1>6
      <4>3. heap[c] = "live" /\ ref[c] = 0 =>
              \A u \in Threads : rel[u].con = c /\ rel[u].seen = 0 => u # t
        BY <1>5, <3>2
      <4> QED BY <1>6, <1>8, <4>1, <4>2, <4>3 DEF RestInv
    <3>3. CASE c # x
      <4>1. ref'[c] = ref[c] /\ RestInv(c)
        BY <1>3, <3>3 DEF IInv, ConInv
      <4>2. \A u \in Threads : rel[u].con = c => rel'[u] = rel[u]
        BY <1>6, <3>3 DEF x
      <4> QED BY <1>8, <4>1, <4>2 DEF RestInv
    <3> QED BY <3>1, <3>2, <3>3
  <2> QED BY <2>1, <2>2, <2>4, <2>5, <2>6 DEF ConInv
<1>13. ListInv'
  BY <1>8 DEF IInv, ListInv
<1>14. \A c \in Connections : Claimed(c) => Claimed(c)'
  BY <1>1, <1>3 DEF Claimed, Dying
<1>15. \A i \in 1 .. Len(hubList) : hubList[i] \in Connections
  BY LenProperties DEF IInv, TypeInv
<1>16. \A i \in 1 .. Len(hubList) : Claimed(hubList[i]) => Claimed(hubList[i])'
  BY <1>8, <1>14, <1>15 DEF Claimed
<1>17. NoTwins' /\ JobInv'
  <2>1. DOMAIN hubList = 1 .. Len(hubList)
    BY LenProperties DEF IInv, TypeInv
  <2>2. NoTwins'
    BY <1>8, <1>16, <2>1 DEF IInv, NoTwins
  <2>3. JobInv'
    BY <1>8, <1>16 DEF IInv, JobInv
  <2> QED BY <2>2, <2>3
<1>18. RelInv'
  <2>1. \A u \in Threads : u # t => rel'[u] = rel[u]
    BY <1>6
  <2>2. /\ rel'[t].at # "none" => rel'[t].con \in Connections
        /\ rel'[t].at \notin {"look", "claim"}
        /\ rel'[t].at = "drop" => Dead(rel[t].con)'
    BY <1>1, <1>2, <1>6, <1>11 DEF Dead
  <2>3. \A u \in Threads : u # t /\ rel[u].at = "drop" => Dead(rel[u].con)'
    <3> SUFFICES ASSUME NEW u \in Threads, u # t, rel[u].at = "drop" PROVE Dead(rel[u].con)'
      OBVIOUS
    <3>1. rel[u].con \in Connections /\ Dead(rel[u].con) /\ rel'[u] = rel[u]
      BY <2>1 DEF IInv, RelInv
    <3>2. ref'[rel[u].con] < 0 \/ heap'[rel[u].con] = "freed"
      BY <1>11, <3>1 DEF Dead
    <3> QED BY <3>1, <3>2 DEF Dead
  <2> QED BY <2>1, <2>2, <2>3 DEF IInv, RelInv
<1>19. PhaseInv'
  BY <1>8 DEF IInv, PhaseInv
<1>20. WalkInv'
  <2>1. \A c \in Connections : Dead(c)' /\ Posted(c)' => Dead(c) /\ Posted(c)
    <3> SUFFICES ASSUME NEW c \in Connections, Dead(c)', Posted(c)' PROVE Dead(c) /\ Posted(c)
      OBVIOUS
    <3>1. Posted(c)
      BY <1>8 DEF Posted
    <3>2. Holders(c) # 0
      BY <3>1, NoneLeft DEF IInv
    <3> QED BY <1>10, <1>11, <3>1, <3>2
  <2> QED BY <1>8, <2>1 DEF IInv, WalkInv, Before
<1> QED BY <1>7, <1>12, <1>13, <1>17, <1>18, <1>19, <1>20 DEF IInv

-------------------------------------------------------------------------------
(* What taking an entry out of the hub's list does to the others.          *)

LEMMA RemoveEntries ==
    ASSUME NEW S, NEW s \in Seq(S), NEW p \in 1 .. Len(s)
    PROVE  /\ RemoveAt(s, p) \in Seq(S)
           /\ Len(RemoveAt(s, p)) = Len(s) - 1
           /\ \A i \in 1 .. Len(s) - 1 :
                 RemoveAt(s, p)[i] = IF i < p THEN s[i] ELSE s[i + 1]
<1> DEFINE front == SubSeq(s, 1, p - 1)
           back  == SubSeq(s, p + 1, Len(s))
<1>1. /\ front \in Seq(S) /\ Len(front) = p - 1
      /\ \A i \in 1 .. p - 1 : front[i] = s[i]
  <2>1. \A i \in 1 .. p - 1 : s[i] \in S
    BY ElementOfSeq, LenProperties
  <2> QED BY <2>1, SubSeqProperties
<1>2. /\ back \in Seq(S) /\ Len(back) = Len(s) - p
      /\ \A i \in 1 .. Len(s) - p : back[i] = s[p + i]
  <2>1. \A i \in p + 1 .. Len(s) : s[i] \in S
    BY ElementOfSeq, LenProperties
  <2> QED BY <2>1, SubSeqProperties
<1> HIDE DEF front, back
<1>3. /\ front \o back \in Seq(S)
      /\ Len(front \o back) = Len(s) - 1
      /\ \A i \in 1 .. Len(s) - 1 :
            (front \o back)[i] = IF i < p THEN front[i] ELSE back[i - (p - 1)]
  <2>1. /\ front \o back \in Seq(S)
        /\ Len(front \o back) = Len(front) + Len(back)
        /\ \A i \in 1 .. Len(front) + Len(back) :
              (front \o back)[i] = IF i <= Len(front) THEN front[i] ELSE back[i - Len(front)]
    BY <1>1, <1>2, ConcatProperties
  <2>2. Len(front) = p - 1 /\ Len(front) + Len(back) = Len(s) - 1 /\ Len(s) \in Nat
    BY <1>1, <1>2, LenProperties
  <2>3. \A i \in 1 .. Len(s) - 1 : i <= Len(front) <=> i < p
    BY <2>2
  <2> QED BY <2>1, <2>2, <2>3
<1>4. RemoveAt(s, p) = front \o back
  BY DEF RemoveAt, front, back
<1>5. ASSUME NEW i \in 1 .. Len(s) - 1
      PROVE  (front \o back)[i] = IF i < p THEN s[i] ELSE s[i + 1]
  <2>1. CASE i < p
    BY <1>1, <1>3, <2>1
  <2>2. CASE i >= p
    <3>1. PICK j \in 1 .. Len(s) - p : j = i - (p - 1)
      BY <2>2, LenProperties
    <3>2. p + j = i + 1
      BY <3>1, LenProperties
    <3>3. back[j] = s[i + 1]
      BY <1>2, <3>2
    <3>4. (front \o back)[i] = back[j]
      BY <1>3, <2>2, <3>1
    <3> QED BY <2>2, <3>3, <3>4
  <2>3. Len(s) \in Nat
    BY LenProperties
  <2>4. i < p \/ i >= p
    BY <2>3
  <2> QED BY <2>1, <2>2, <2>4, Zenon
<1> QED BY <1>3, <1>4, <1>5

\* Taking a listed entry out leaves the others, in their order.
LEMMA FirstRemoved ==
    ASSUME NEW S, NEW q \in Seq(S), NEW e, NEW p, p = RemoveFirst(q, e),
           \A i, j \in 1 .. Len(q) : q[i] = q[j] => i = j
    PROVE  /\ p \in Seq(S) /\ Len(p) \in Nat
           /\ \A i, j \in 1 .. Len(p) : p[i] = p[j] => i = j
           /\ \A i \in 1 .. Len(p) : p[i] # e /\ \E k \in 1 .. Len(q) : q[k] = p[i]
           /\ \A k \in 1 .. Len(q) : q[k] # e => \E i \in 1 .. Len(p) : p[i] = q[k]
           /\ \A i, j \in 1 .. Len(q) : i < j /\ q[i] # e /\ q[j] # e =>
                \E k, l \in 1 .. Len(p) : k < l /\ p[k] = q[i] /\ p[l] = q[j]
<1> DEFINE n == Len(q)
<1>0. n \in Nat /\ q \in [1 .. n -> S]
  BY LenProperties
<1>1. CASE ~\E i \in 1 .. n : q[i] = e
  <2>1. p = q
    BY <1>1 DEF RemoveFirst
  <2>2. \A i \in 1 .. n : q[i] # e /\ \E k \in 1 .. n : q[k] = q[i]
    BY <1>1
  <2> HIDE DEF n
  <2>3. \A i, j \in 1 .. n : i < j /\ q[i] # e /\ q[j] # e =>
           \E k, l \in 1 .. n : k < l /\ q[k] = q[i] /\ q[l] = q[j]
    OBVIOUS
  <2> QED BY <1>0, <2>1, <2>2, <2>3 DEF n
<1>2. CASE \E i \in 1 .. n : q[i] = e
  <2>1. PICK m \in 1 .. n : q[m] = e
    BY <1>2
  <2>2. {i \in 1 .. n : q[i] = e} = {m}
    BY <2>1
  <2>3. SelectInSeq(q, LAMBDA v : v = e) = m
    BY <1>0, <2>1, <2>2 DEF SelectInSeq, Min
  <2>4. p = RemoveAt(q, m)
    BY <1>2, <2>3 DEF RemoveFirst
  <2> DEFINE v == RemoveAt(q, m)
  <2>50. /\ v \in Seq(S) /\ Len(v) = n - 1
         /\ \A i \in 1 .. n - 1 : v[i] = IF i < m THEN q[i] ELSE q[i + 1]
    BY RemoveEntries
  <2>51. p = v
    BY <2>4
  <2> HIDE DEF v
  <2>5. /\ p \in Seq(S) /\ Len(p) = n - 1
        /\ \A i \in 1 .. n - 1 : p[i] = IF i < m THEN q[i] ELSE q[i + 1]
    BY <2>50, <2>51
  <2> HIDE DEF n
  <2>6. \A i \in 1 .. n - 1 : p[i] = IF i < m THEN q[i] ELSE q[i + 1]
    BY <2>5
  <2>7. \A i \in 1 .. n : q[i] = e => i = m
    BY <2>1 DEF n
  <2>8. \A i, j \in 1 .. n - 1 : p[i] = p[j] => i = j
    <3> SUFFICES ASSUME NEW i \in 1 .. n - 1, NEW j \in 1 .. n - 1, p[i] = p[j] PROVE i = j
      OBVIOUS
    <3> DEFINE i1 == IF i < m THEN i ELSE i + 1
               j1 == IF j < m THEN j ELSE j + 1
    <3>1. i1 \in 1 .. n /\ j1 \in 1 .. n /\ q[i1] = p[i] /\ q[j1] = p[j]
      BY <1>0, <2>1, <2>6
    <3>2. i1 = j1
      BY <3>1 DEF n
    <3> QED BY <1>0, <2>1, <3>2
  <2>9. \A i \in 1 .. n - 1 : p[i] # e /\ \E k \in 1 .. n : q[k] = p[i]
    <3> SUFFICES ASSUME NEW i \in 1 .. n - 1 PROVE p[i] # e /\ \E k \in 1 .. n : q[k] = p[i]
      OBVIOUS
    <3>1. CASE i < m
      BY <1>0, <2>1, <2>6, <2>7, <3>1
    <3>2. CASE ~(i < m)
      <4>1. i + 1 \in 1 .. n /\ i + 1 # m /\ p[i] = q[i + 1]
        BY <1>0, <2>1, <2>6, <3>2
      <4> QED BY <2>7, <4>1
    <3> QED BY <3>1, <3>2
  <2>10. \A i \in 1 .. n : i # m =>
           /\ i < m => i \in 1 .. n - 1 /\ p[i] = q[i]
           /\ i > m => i - 1 \in 1 .. n - 1 /\ p[i - 1] = q[i]
    BY <1>0, <2>1, <2>6
  <2>11. \A i, j \in 1 .. n : i < j /\ q[i] # e /\ q[j] # e =>
           \E k, l \in 1 .. n - 1 : k < l /\ p[k] = q[i] /\ p[l] = q[j]
    <3> SUFFICES ASSUME NEW i \in 1 .. n, NEW j \in 1 .. n, i < j, q[i] # e, q[j] # e
                 PROVE  \E k, l \in 1 .. n - 1 : k < l /\ p[k] = q[i] /\ p[l] = q[j]
      OBVIOUS
    <3> DEFINE k == IF i < m THEN i ELSE i - 1
               l == IF j < m THEN j ELSE j - 1
    <3>1. i # m /\ j # m
      BY <2>1
    <3>2. k \in 1 .. n - 1 /\ p[k] = q[i] /\ l \in 1 .. n - 1 /\ p[l] = q[j] /\ k < l
      BY <1>0, <2>1, <2>10, <3>1
    <3> QED BY <3>2
  <2>12. ASSUME NEW k \in 1 .. n, q[k] # e PROVE \E i \in 1 .. n - 1 : p[i] = q[k]
    <3>1. k < m \/ k > m
      BY <1>0, <2>1, <2>12
    <3> QED BY <2>10, <3>1
  <2>13. n - 1 \in Nat
    BY <1>0, <2>1
  <2> QED BY <2>5, <2>8, <2>9, <2>11, <2>12, <2>13 DEF n
<1> QED BY <1>1, <1>2

LEMMA DropStep ==
    ASSUME IInv, NEW t \in Threads, DropAndDelete(t)
    PROVE  IInv'
<1> DEFINE x == rel[t].con
<1>1. /\ rel[t].at = "drop" /\ x \in Connections /\ Dead(x)
      /\ heap' = [heap EXCEPT ![x] = "freed"] /\ keyed' = [keyed EXCEPT ![x] = FALSE]
      /\ hubList' = RemoveFirst(hubList, x) /\ rel' = [rel EXCEPT ![t] = Returned]
      /\ UNCHANGED <<ref, destroyed, pumpVars, hubVars, appVars>>
  BY DEF DropAndDelete, IInv, RelInv
<1>2. Returned \in Releases /\ Returned.at = "none" /\ Returned.con = None
  BY DEF Returned, Releases
<1>3. /\ rel'[t] = Returned /\ \A u \in Threads : u # t => rel'[u] = rel[u]
      /\ rel' \in [Threads -> Releases]
      /\ heap' \in [Connections -> {"live", "freed"}] /\ heap'[x] = "freed"
      /\ keyed' \in [Connections -> BOOLEAN] /\ ~keyed'[x]
      /\ \A c \in Connections : c # x => heap'[c] = heap[c] /\ keyed'[c] = keyed[c]
  BY <1>1, <1>2 DEF IInv, TypeInv
<1>4. /\ hubList' \in Seq(Connections)
      /\ \A i, j \in 1 .. Len(hubList') : hubList'[i] = hubList'[j] => i = j
      /\ \A i \in 1 .. Len(hubList') : hubList'[i] # x /\ \E k \in 1 .. Len(hubList) : hubList[k] = hubList'[i]
      /\ \A k \in 1 .. Len(hubList) : hubList[k] # x => \E i \in 1 .. Len(hubList') : hubList'[i] = hubList[k]
      /\ \A c, d : c # x /\ d # x /\ Before(c, d) =>
           \E k, l \in 1 .. Len(hubList') : k < l /\ hubList'[k] = c /\ hubList'[l] = d
  <2>1. hubList \in Seq(Connections) /\ \A i, j \in 1 .. Len(hubList) : hubList[i] = hubList[j] => i = j
    BY DEF IInv, TypeInv, ListInv
  <2> DEFINE p == hubList'
  <2>20. p = RemoveFirst(hubList, x)
    BY <1>1
  <2> HIDE DEF p, x
  <2>2. /\ p \in Seq(Connections)
        /\ \A i, j \in 1 .. Len(p) : p[i] = p[j] => i = j
        /\ \A i \in 1 .. Len(p) : p[i] # x /\ \E k \in 1 .. Len(hubList) : hubList[k] = p[i]
        /\ \A k \in 1 .. Len(hubList) : hubList[k] # x => \E i \in 1 .. Len(p) : p[i] = hubList[k]
        /\ \A i, j \in 1 .. Len(hubList) : i < j /\ hubList[i] # x /\ hubList[j] # x =>
             \E k, l \in 1 .. Len(p) : k < l /\ p[k] = hubList[i] /\ p[l] = hubList[j]
    <3> DEFINE q == hubList
    <3>1. /\ q \in Seq(Connections) /\ p = RemoveFirst(q, x)
          /\ \A i, j \in 1 .. Len(q) : q[i] = q[j] => i = j
      BY <2>1, <2>20
    <3> HIDE DEF q
    <3>2. /\ p \in Seq(Connections)
          /\ \A i, j \in 1 .. Len(p) : p[i] = p[j] => i = j
      BY <3>1, FirstRemoved
    <3>3. \A i \in 1 .. Len(p) : p[i] # x /\ \E k \in 1 .. Len(q) : q[k] = p[i]
      BY <3>1, FirstRemoved
    <3>5. \A k \in 1 .. Len(q) : q[k] # x => \E i \in 1 .. Len(p) : p[i] = q[k]
      BY <3>1, FirstRemoved
    <3>4. \A i, j \in 1 .. Len(q) : i < j /\ q[i] # x /\ q[j] # x =>
             \E k, l \in 1 .. Len(p) : k < l /\ p[k] = q[i] /\ p[l] = q[j]
      BY <3>1, FirstRemoved
    <3> QED BY <3>2, <3>3, <3>4, <3>5 DEF q
  <2>4. ASSUME NEW c, NEW d, c # x, d # x, Before(c, d)
        PROVE  \E k, l \in 1 .. Len(p) : k < l /\ p[k] = c /\ p[l] = d
    <3>1. PICK i \in 1 .. Len(hubList), j \in 1 .. Len(hubList) : i < j /\ hubList[i] = c /\ hubList[j] = d
      BY <2>4 DEF Before
    <3>2. hubList[i] # x /\ hubList[j] # x
      BY <2>4, <3>1
    <3>3. \E k, l \in 1 .. Len(p) : k < l /\ p[k] = hubList[i] /\ p[l] = hubList[j]
      <4> QED BY <2>2, <3>1, <3>2
    <3> QED BY <3>1, <3>3
  <2> QED BY <2>2, <2>4 DEF p
<1>5. UNCHANGED <<ref, destroyed, recv, port, fifo, hub, cursor, pins, section, job, held, safe, offered>>
  BY <1>1 DEF pumpVars, hubVars, appVars
<1> HIDE DEF x
<1>6. TypeInv'
  BY <1>1, <1>3, <1>4, <1>5 DEF IInv, TypeInv, pumpVars
<1>7. \A c \in Connections : Holders(c)' = Holders(c)
  <2>1. \A c \in Connections : {u \in Threads : rel'[u].con = c /\ rel'[u].at = "down"}
                             = {u \in Threads : rel[u].con = c /\ rel[u].at = "down"}
    BY <1>1, <1>2, <1>3
  <2> QED BY <1>5, <2>1 DEF Holders
<1>8. \A c \in Connections : Dead(c)' <=> Dead(c)
  BY <1>1, <1>3, <1>5 DEF Dead
<1>9. ASSUME NEW c \in Connections PROVE ConInv(c)'
  <2>1. RefInv(c)' /\ RecvInv(c)'
    BY <1>3, <1>5, <1>7 DEF IInv, ConInv, RefInv, RecvInv
  <2>2. \A u \in Threads : rel'[u].at = "down" => rel'[u] = rel[u]
    BY <1>2, <1>3
  <2>3. LastInv(c)'
    BY <1>5, <1>8, <2>2 DEF IInv, ConInv, LastInv, Posted, Noted, Threads
  <2>4. FreshInv(c)'
    <3>1. c \notin offered => c # x
      BY DEF IInv, ConInv, FreshInv, x
    <3> QED BY <1>2, <1>3, <1>5, <3>1, ThreadsAssumption DEF IInv, ConInv, FreshInv
  <2>5. RestInv(c)'
    <3>1. CASE c = x
      BY <1>3, <3>1 DEF RestInv
    <3>2. CASE c # x
      <4>1. \A u \in Threads : rel[u].con = c => rel'[u] = rel[u]
        BY <1>3, <3>2 DEF x
      <4>2. heap'[c] = heap[c] /\ keyed'[c] = keyed[c] /\ RestInv(c)
        BY <1>3, <3>2 DEF IInv, ConInv
      <4> SUFFICES ASSUME heap[c] = "live", c \in offered PROVE RestInv(c)'
        BY <1>5, <4>2 DEF RestInv
      <4>3. ref[c] < 0 => \E u \in Threads : rel'[u].con = c /\ rel'[u].at = "drop"
        BY <4>1, <4>2 DEF RestInv
      <4>4. ref[c] = 0 => \/ keyed[c] /\ ~destroyed[c]
                          \/ \E u \in Threads : /\ rel'[u].con = c /\ rel'[u].seen = 0
                                                /\ rel'[u].at \in {"look", "claim"}
        BY <4>1, <4>2 DEF RestInv
      <4>5. keyed'[c] = keyed[c] /\ UNCHANGED <<ref, destroyed>>
        BY <1>5, <4>2
      <4> QED BY <4>3, <4>4, <4>5 DEF RestInv
    <3> QED BY <3>1, <3>2
  <2> QED BY <2>1, <2>3, <2>4, <2>5 DEF ConInv
<1>10. ListInv'
  <2>1. ASSUME NEW c \in Connections
        PROVE  keyed'[c] <=> \E i \in 1 .. Len(hubList') : hubList'[i] = c
    <3>1. keyed[c] <=> \E i \in 1 .. Len(hubList) : hubList[i] = c
      BY DEF IInv, ListInv
    <3>2. CASE c = x
      BY <1>3, <1>4, <3>2
    <3>3. CASE c # x
      <4>1. keyed'[c] = keyed[c]
        BY <1>3, <3>3
      <4>2. (\E i \in 1 .. Len(hubList') : hubList'[i] = c) <=>
              \E i \in 1 .. Len(hubList) : hubList[i] = c
        BY <1>4, <3>3
      <4> QED BY <3>1, <4>1, <4>2
    <3> QED BY <3>2, <3>3
  <2>2. \A c \in Connections : keyed'[c] => heap'[c] = "live"
    BY <1>3 DEF IInv, ListInv
  <2> QED BY <1>4, <2>1, <2>2 DEF ListInv
<1>11. NoTwins'
  <2>1. DOMAIN hubList = 1 .. Len(hubList) /\ DOMAIN hubList' = 1 .. Len(hubList')
    BY <1>4, LenProperties DEF IInv, TypeInv
  <2>2. \A i, j \in 1 .. Len(hubList) :
          hubList[i] # hubList[j] /\ ~Claimed(hubList[i]) /\ ~Claimed(hubList[j]) =>
            Address[hubList[i]] # Address[hubList[j]]
    BY <2>1 DEF IInv, NoTwins
  <2>3. ASSUME NEW i \in 1 .. Len(hubList'), NEW j \in 1 .. Len(hubList'), i # j,
               ~(ref[hubList'[i]] < 0), ~(ref[hubList'[j]] < 0)
        PROVE  Address[hubList'[i]] # Address[hubList'[j]]
    <3>1. hubList'[i] # hubList'[j]
      BY <1>4, <2>3
    <3>2. PICK k \in 1 .. Len(hubList) : hubList[k] = hubList'[i]
      BY <1>4
    <3>3. PICK l \in 1 .. Len(hubList) : hubList[l] = hubList'[j]
      BY <1>4
    <3> QED BY <2>2, <2>3, <3>1, <3>2, <3>3 DEF Claimed
  <2> QED BY <1>5, <2>1, <2>3 DEF NoTwins, Claimed
<1>12. RelInv'
  <2>1. \A u \in Threads : rel'[u].at # "none" => u # t /\ rel'[u] = rel[u]
    BY <1>2, <1>3
  <2>2. \A u \in Threads : u # t /\ rel[u].at = "drop" => Dead(rel[u].con)'
    <3> SUFFICES ASSUME NEW u \in Threads, u # t, rel[u].at = "drop" PROVE Dead(rel[u].con)'
      OBVIOUS
    <3>1. rel[u].con \in Connections /\ Dead(rel[u].con) /\ rel'[u] = rel[u]
      BY <1>3 DEF IInv, RelInv
    <3>2. ref'[rel[u].con] < 0 \/ heap'[rel[u].con] = "freed"
      BY <1>3, <1>5, <3>1 DEF Dead
    <3> QED BY <3>1, <3>2 DEF Dead
  <2>3. \A u \in Threads : /\ rel[u].at # "none" => rel[u].con \in Connections
                           /\ rel[u].at \in {"look", "claim"} => rel[u].seen <= 0
    BY DEF IInv, RelInv
  <2> QED BY <2>1, <2>2, <2>3 DEF RelInv
<1>13. \A c \in Connections : keyed'[c] => keyed[c]
  BY <1>3
<1>14. PhaseInv'
  BY <1>5, <1>13 DEF IInv, PhaseInv
<1>15. JobInv'
  <2>1. ASSUME NEW u \in Apps, job[u].do = "post"
        PROVE  ~keyed'[job[u].con]
    <3>1. job[u].con \in Connections /\ ~keyed[job[u].con]
      BY <2>1 DEF IInv, JobInv, TypeInv, Jobs
    <3> QED BY <1>13, <3>1
  <2>2. ASSUME NEW u \in Apps, job[u].do = "post", NEW i \in 1 .. Len(hubList'), ~(ref[hubList'[i]] < 0)
        PROVE  hubList'[i] \in held[u]
    <3>1. PICK k \in 1 .. Len(hubList) : hubList[k] = hubList'[i]
      BY <1>4
    <3> QED BY <2>2, <3>1 DEF IInv, JobInv, Claimed
  <2> QED BY <1>5, <2>1, <2>2 DEF IInv, JobInv, Claimed
<1>16. WalkInv'
  <2>1. ASSUME NEW c \in Connections, hub \in {"signalling", "signal"}, Dead(c)', Posted(c)', keyed'[c]
        PROVE  cursor # None /\ (~keyed'[cursor] \/ Before(c, cursor)' \/ (c = cursor /\ hub = "signalling"))
    <3>1. Dead(c) /\ Posted(c) /\ keyed[c] /\ c # x
      BY <1>3, <1>5, <1>8, <1>13, <2>1 DEF Posted
    <3>2. cursor # None /\ (~keyed[cursor] \/ Before(c, cursor) \/ (c = cursor /\ hub = "signalling"))
      BY <2>1, <3>1 DEF IInv, WalkInv
    <3>3. cursor \in Connections
      BY <3>2 DEF IInv, TypeInv
    <3>4. CASE cursor = x
      BY <1>3, <3>2, <3>4
    <3>5. CASE cursor # x
      <4>1. Before(c, cursor) => Before(c, cursor)'
        <5>1. \A d : Before(c, d) /\ d # x => \E k, l \in 1 .. Len(hubList') : k < l /\ hubList'[k] = c /\ hubList'[l] = d
          BY <1>4, <3>1
        <5>2. Before(c, cursor)' <=> \E k, l \in 1 .. Len(hubList') : k < l /\ hubList'[k] = c /\ hubList'[l] = cursor
          BY <1>5 DEF Before
        <5> QED BY <3>5, <5>1, <5>2
      <4> QED BY <1>3, <3>2, <3>3, <3>5, <4>1
    <3> QED BY <3>4, <3>5
  <2>2. ASSUME hub \in {"signalling", "signal"}, cursor # None
        PROVE  keyed'[cursor] \/ heap'[cursor] = "freed"
    <3>1. cursor \in Connections /\ (keyed[cursor] \/ heap[cursor] = "freed")
      BY <2>2 DEF IInv, WalkInv, TypeInv
    <3> QED BY <1>3, <3>1
  <2> QED BY <1>5, <2>1, <2>2 DEF IInv, WalkInv
<1> QED BY <1>6, <1>9, <1>10, <1>11, <1>12, <1>14, <1>15, <1>16 DEF IInv

-------------------------------------------------------------------------------
(* The invariant, and what follows.                                        *)

LEMMA InitHolds == Init => IInv
<1> SUFFICES ASSUME Init PROVE IInv
  OBVIOUS
<1>1. TypeInv
  <2>1. <<>> \in Seq(Connections) /\ <<>> \in Seq(Packets) /\ <<>> \in Seq(Notes)
    OBVIOUS
  <2>2. Idle \in Jobs /\ Returned \in Releases
    BY DEF Idle, Jobs, Returned, Releases
  <2> QED BY <2>1, <2>2 DEF Init, TypeInv
<1>2. Len(port) = 0 /\ Len(fifo) = 0 /\ Len(hubList) = 0 /\ DOMAIN hubList = {}
  BY DEF Init
<1>3. \A t \in Threads : rel[t].con = None /\ rel[t].at = "none"
  BY DEF Init, Returned
<1>4. ListInv /\ RelInv /\ PhaseInv /\ WalkInv /\ NoTwins
  BY <1>2, <1>3 DEF Init, ListInv, RelInv, PhaseInv, WalkInv, NoTwins
<1>5. JobInv
  BY <1>2 DEF Init, JobInv, Idle
<1>6. ASSUME NEW c \in Connections PROVE ConInv(c)
  <2>1. c # None
    BY ThreadsAssumption
  <2>2. Holders(c) = 0
    <3>1. Ports(c) = 0 /\ Notices(c) = 0
      <4>1. 1 .. Len(port) = {} /\ 1 .. Len(fifo) = {}
        BY <1>2
      <4> QED BY <1>1, <4>1, EntryCounted DEF TypeInv, Ports, Notices
    <3>2. Flights(c) = 0 /\ Pins(c) = 0
      BY DEF Init, Flights, Pins, Holds
    <3>3. /\ {t \in Apps : c \in held[t]} = {} /\ {t \in Apps : safe[t] = c} = {}
          /\ {t \in Apps : job[t].con = c} = {}
          /\ {t \in Threads : rel[t].con = c /\ rel[t].at = "down"} = {}
      BY <1>3, <2>1 DEF Init, Idle
    <3>4. Walks(c) = 0 /\ Keeps(c) = 0 /\ Posts(c) = 0 /\ Downs(c) = 0
      BY <3>3, FS_EmptySet DEF Walks, Keeps, Posts, Downs
    <3> QED BY <1>1, <3>1, <3>2, <3>4, Parts
  <2>3. heap[c] = "live" /\ ref[c] = 0 /\ ~keyed[c] /\ recv[c] = "idle" /\ c \notin offered
    BY DEF Init
  <2> QED BY <1>2, <1>3, <2>1, <2>2, <2>3
       DEF ConInv, RefInv, LastInv, Dead, RecvInv, FreshInv, RestInv
<1> QED BY <1>1, <1>4, <1>5, <1>6 DEF IInv

LEMMA StutterHolds == IInv /\ UNCHANGED vars => IInv'
<1> SUFFICES ASSUME IInv, UNCHANGED vars PROVE IInv'
  OBVIOUS
<1>1. UNCHANGED <<heap, ref, destroyed, keyed, hubList, bound, open, recv, port, fifo, hub, cursor,
                  pins, section, job, held, safe, rel, offered>>
  BY DEF vars, pumpVars, regVars, hubVars, appVars
<1>2. \A c \in Connections : Holders(c)' = Holders(c)
  BY <1>1 DEF Holders
<1> QED BY <1>1, <1>2 DEF IInv, TypeInv, ListInv, RelInv, JobInv, PhaseInv, WalkInv, NoTwins, Claimed,
     ConInv, RefInv, LastInv, RecvInv, FreshInv, RestInv, Dead, Posted, Noted, Before

LEMMA StepHolds == IInv /\ [Next]_vars => IInv'
<1> SUFFICES ASSUME IInv, Next PROVE IInv'
  BY StutterHolds
<1>1. CASE \E t \in Threads : Release(t)
  BY <1>1, DecrementStep, LookStep, ClaimStep, DropStep DEF Release
<1>2. CASE \E t \in Apps : App(t)
  BY <1>2, ReturnStep, ListStep, StartupStep, GiveBackStep DEF App
<1>3. CASE \E t \in Apps : Calls(t)
  BY <1>3, EnterStep, KeepStep, SignalStep DEF Calls
<1>4. CASE \E c \in Connections : Deliver(c)
  BY <1>4, DeliverStep
<1>5. CASE Dispatch
  BY <1>5, DispatchStartupStep, LetGoStep DEF Dispatch
<1>6. CASE Complete \/ Drain
  BY <1>6, PacketStep
<1>7. CASE CloseHub \/ Enumerate \/ EndDrain \/ DeleteHub
  BY <1>7, ControlStep
<1>8. CASE SignalDestroy \/ Pin \/ Sweep
  BY <1>8, SignalDestroyStep, PinStep, SweepStep
<1>9. CASE Unpin \/ FlushOne
  BY <1>9, LetGoStep
<1> QED BY <1>1, <1>2, <1>3, <1>4, <1>5, <1>6, <1>7, <1>8, <1>9 DEF Next, HubCloses

LEMMA InvHolds == Spec => []IInv
BY InitHolds, StepHolds, PTL DEF Spec

\* The states of connections, hub and threads are those of the code's fields, and its
\* lists hold nothing but connections, packets and messages.
THEOREM TypeCorrect == Spec => []TypeInv
<1>1. IInv => TypeInv
  BY DEF IInv
<1> QED BY <1>1, InvHolds, PTL

\* m_cRef counts what holds the connection, by whatever way its operations, its messages
\* and its walks end, until the Release that reaches zero claims it (P2PeerConPlc::AddRef,
\* Release): for any number of threads and connections, and any number of signals.
THEOREM CountIsExact == Spec => []CountsExact
<1>1. IInv => CountsExact
  BY DEF IInv, ConInv, RefInv, CountsExact, Claimed
<1> QED BY <1>1, InvHolds, PTL

\* While the hub runs, nothing refers to a connection whose last Release has claimed it
\* (the compare-exchange of Release wins only where every reference is back).
THEOREM ClaimedIsUnheld == Spec => []CountedIsLive
<1>1. IInv => CountedIsLive
  <2> SUFFICES ASSUME IInv, hub = "run", NEW c \in Connections, heap[c] = "freed" \/ Claimed(c)
               PROVE  Holders(c) = 0
    BY DEF CountedIsLive
  <2>1. LastInv(c) /\ Dead(c) /\ pins = {} /\ TypeInv
    BY DEF Dead, Claimed, IInv, ConInv, PhaseInv
  <2>2. Ports(c) = 0 /\ Notices(c) = 0
    BY <2>1, EntryCounted DEF LastInv, Posted, Noted, TypeInv, Ports, Notices
  <2>3. Flights(c) = 0 /\ Pins(c) = 0
    BY <2>1 DEF LastInv, Flights, Pins, Holds
  <2>4. /\ {t \in Apps : c \in held[t]} = {} /\ {t \in Apps : safe[t] = c} = {}
        /\ {t \in Apps : job[t].con = c} = {}
        /\ {t \in Threads : rel[t].con = c /\ rel[t].at = "down"} = {}
    BY <2>1 DEF LastInv, Threads
  <2>5. Walks(c) = 0 /\ Keeps(c) = 0 /\ Posts(c) = 0 /\ Downs(c) = 0
    BY <2>4, FS_EmptySet DEF Walks, Keeps, Posts, Downs
  <2> QED BY <2>1, <2>2, <2>3, <2>5, Parts
<1> QED BY <1>1, InvHolds, PTL

\* The hub's list and the registry's keys never name a connection that has been deleted
\* (DropP2PmsgCon comes before the delete, under the registry's lock).
THEOREM RegistryIsLive == Spec => []RegistryLive
<1>1. IInv => RegistryLive
  <2> SUFFICES ASSUME IInv PROVE RegistryLive
    OBVIOUS
  <2>1. DOMAIN hubList = 1 .. Len(hubList) /\ \A i \in 1 .. Len(hubList) : hubList[i] \in Connections
    BY LenProperties DEF IInv, TypeInv
  <2> QED BY <2>1 DEF IInv, ListInv, RegistryLive
<1> QED BY <1>1, InvHolds, PTL

\* However many threads post at a time, two connections of one address are not both in the
\* hub: PostP2PeerCon scans and lists under m_oCSectionHub, and what its scan missed is being
\* deleted.
THEOREM AddressIsUnique == Spec => []NoTwins
<1>1. IInv => NoTwins
  BY DEF IInv
<1> QED BY <1>1, InvHolds, PTL

\* Where the hub is gone, its messages released and no Release under way, what is left of
\* the connections it was given is held by somebody (CloseP2PmsgHub, ~P2PmsgPump).
THEOREM RestIsReclaimed == Spec => []Reclaimed
<1>1. IInv => Reclaimed
  <2> SUFFICES ASSUME IInv, Rest, NEW c \in Connections, heap[c] = "live", c \in offered,
                      ~(Holders(c) > 0)
               PROVE  FALSE
    BY DEF Reclaimed
  <2>1. Holders(c) = 0 /\ RefInv(c) /\ RestInv(c) /\ ref[c] \in Int
    BY Parts DEF IInv, ConInv, TypeInv
  <2>2. \A t \in Threads : rel[t].at = "none"
    BY DEF Rest, Returned
  <2>3. ref[c] = 0
    BY <2>1, <2>2 DEF RefInv, RestInv
  <2>4. keyed[c] /\ ~destroyed[c]
    BY <2>1, <2>2, <2>3 DEF RestInv
  <2> QED BY <2>4 DEF IInv, PhaseInv, Rest
<1> QED BY <1>1, InvHolds, PTL

===============================================================================
