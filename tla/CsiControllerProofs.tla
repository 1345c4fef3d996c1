------------------------ MODULE CsiControllerProofs -------------------------
(***************************************************************************)
(* Proofs about CsiController, for every set of names, calls and requests, *)
(* and for every extent size and integer width.                            *)
(***************************************************************************)
EXTENDS CsiController, TLAPS

(* The capacity of a request. *)

\* Division with remainder.
LEMMA DivMod ==
  \A n \in Nat, d \in Nat \ {0} : n \div d \in Nat /\ n % d \in 0..(d - 1) /\ n = d * (n \div d) + (n % d)
  OBVIOUS

\* A sum of two non-negative numbers of the width wraps when it exceeds the largest one.
LEMMA WrapValue ==
  \A x \in Nat : x <= 2 * MaxInt + 1 => Wrap(x) = IF x <= MaxInt THEN x ELSE x - 2 * (MaxInt + 1)
  BY NumbersAssumption DEF Wrap, NumbersAssumption

\* Floor gives a multiple of the extent size, at most an extent below.
LEMMA FloorValue ==
  \A x \in Nat : \E q \in Nat : /\ q = x \div Extent /\ Floor(x) = Extent * q
                                /\ Floor(x) <= x /\ x < Floor(x) + Extent
  <1> TAKE x \in Nat
  <1> DEFINE q == x \div Extent
  <1>0. Extent \in Nat \ {0}
    BY NumbersAssumption DEF NumbersAssumption
  <1>1. q \in Nat /\ x % Extent \in 0..(Extent - 1) /\ x = Extent * q + (x % Extent)
    BY <1>0, DivMod
  <1>2. Floor(x) = Extent * q /\ Extent * q \in Nat
    BY <1>0, <1>1 DEF Floor
  <1>3. Floor(x) <= x /\ x < Floor(x) + Extent
    BY <1>0, <1>1, <1>2
  <1>4. QED
    BY <1>1, <1>2, <1>3

\* Multiples of the extent size are ordered as their factors are.
LEMMA MultiplesOrdered ==
  \A a, b \in Nat : /\ a <= b => Extent * a <= Extent * b
                    /\ a < b => Extent * a + Extent <= Extent * b
  BY NumbersAssumption DEF NumbersAssumption

\* Floor(x) is the largest multiple of the extent size up to x.
LEMMA FloorLargest ==
  ASSUME NEW x \in 0..MaxInt
  PROVE  Floor(x) \in Multiples /\ Floor(x) <= x /\ \A y \in Multiples : y <= x => y <= Floor(x)
  <1>0. Extent \in Nat \ {0} /\ MaxInt \in Nat /\ x \in Nat
    BY NumbersAssumption DEF NumbersAssumption
  <1>1. PICK q \in Nat : q = x \div Extent /\ Floor(x) = Extent * q /\ Floor(x) <= x /\ x < Floor(x) + Extent
    BY FloorValue
  <1>2. PICK t \in Nat : t = MaxInt \div Extent /\ Floor(MaxInt) = Extent * t /\ MaxInt < Floor(MaxInt) + Extent
    BY <1>0, FloorValue
  <1>3. q <= t
    <2>1. ASSUME t < q
          PROVE  FALSE
      <3>1. Extent * t + Extent <= Extent * q
        BY <2>1, MultiplesOrdered
      <3>2. Extent * t \in Nat /\ Extent * q \in Nat
        BY <1>0
      <3>3. QED
        BY <1>0, <1>1, <1>2, <3>1, <3>2
    <2>2. QED BY <2>1
  <1>4. Floor(x) \in Multiples
    BY <1>1, <1>2, <1>3 DEF Multiples
  <1>5. ASSUME NEW y \in Multiples, y <= x
        PROVE  y <= Floor(x)
    <2>1. PICK k \in Nat : y = Extent * k
      BY <1>2 DEF Multiples
    <2>2. ASSUME q < k
          PROVE  FALSE
      <3>1. Extent * q + Extent <= Extent * k
        BY <2>2, MultiplesOrdered
      <3>2. Extent * q \in Nat /\ Extent * k \in Nat
        BY <1>0
      <3>3. QED
        BY <1>0, <1>1, <1>5, <2>1, <3>1, <3>2
    <2>3. QED
      BY <1>1, <2>1, <2>2, MultiplesOrdered
  <1>6. QED
    BY <1>1, <1>4, <1>5

\* Floor(x + Extent - 1) is the smallest multiple of the extent size from x.
LEMMA FloorSmallest ==
  ASSUME NEW x \in 0..MaxInt, x + Extent - 1 <= MaxInt
  PROVE  LET low == Floor(x + Extent - 1)
         IN  low \in Multiples /\ x <= low /\ \A y \in Multiples : x <= y => low <= y
  <1> DEFINE u == x + Extent - 1
  <1>0. Extent \in Nat \ {0} /\ MaxInt \in Nat /\ x \in Nat /\ u \in 0..MaxInt /\ u \in Nat
    BY NumbersAssumption DEF NumbersAssumption
  <1>1. PICK q \in Nat : Floor(u) = Extent * q /\ Floor(u) <= u /\ u < Floor(u) + Extent
    BY <1>0, FloorValue
  <1>2. Floor(u) \in Multiples
    BY <1>0, FloorLargest
  <1>3. x <= Floor(u)
    <2>1. Extent * q \in Nat
      BY <1>0
    <2>2. QED
      BY <1>0, <1>1, <2>1
  <1>4. ASSUME NEW y \in Multiples, x <= y
        PROVE  Floor(u) <= y
    <2>0. MaxInt \div Extent \in Nat
      BY <1>0, DivMod
    <2>1. PICK k \in Nat : y = Extent * k
      BY <2>0 DEF Multiples
    <2>2. ASSUME k < q
          PROVE  FALSE
      <3>1. Extent * k + Extent <= Extent * q
        BY <2>2, MultiplesOrdered
      <3>2. Extent * q \in Nat /\ Extent * k \in Nat
        BY <1>0
      <3>3. QED
        BY <1>0, <1>1, <1>4, <2>1, <3>1, <3>2
    <2>3. QED
      BY <1>1, <2>1, <2>2, MultiplesOrdered
  <1>5. QED
    BY <1>2, <1>3, <1>4

\* The multiples of the extent size end an extent before the integers do.
LEMMA LastMultiple == \A y \in Multiples : y \in 0..MaxInt /\ y <= MaxInt + 1 - Extent
  <1>0. Extent \in Nat \ {0} /\ MaxInt \in Nat /\ (MaxInt + 1) % Extent = 0
    BY NumbersAssumption DEF NumbersAssumption
  <1>1. PICK w \in Nat : MaxInt + 1 = Extent * w
    <2> DEFINE w == (MaxInt + 1) \div Extent
    <2>1. \A n \in Nat : n \div Extent \in Nat /\ n = Extent * (n \div Extent) + (n % Extent)
      BY <1>0, DivMod
    <2>2. MaxInt + 1 \in Nat
      BY <1>0
    <2>3. w \in Nat /\ MaxInt + 1 = Extent * w + ((MaxInt + 1) % Extent) /\ Extent * w \in Nat
      BY <1>0, <2>1, <2>2
    <2>4. QED
      BY <1>0, <2>3
  <1>2. PICK t \in Nat : t = MaxInt \div Extent /\ Floor(MaxInt) = Extent * t /\ Floor(MaxInt) <= MaxInt
    BY <1>0, FloorValue
  <1>3. ASSUME NEW y \in Multiples
        PROVE  y \in 0..MaxInt /\ y <= MaxInt + 1 - Extent
    <2>1. PICK k \in 0..t : y = Extent * k
      BY <1>2 DEF Multiples
    <2>2. y \in Nat /\ Extent * t \in Nat /\ y <= Extent * t
      BY <1>0, <2>1, MultiplesOrdered
    <2>3. ASSUME w <= k
          PROVE  FALSE
      <3>1. Extent * w <= Extent * k
        BY <2>3, MultiplesOrdered
      <3>2. QED
        BY <1>0, <1>1, <1>2, <2>1, <2>2, <3>1
    <2>4. Extent * k + Extent <= Extent * w
      BY <2>3, MultiplesOrdered
    <2>5. QED
      BY <1>0, <1>1, <1>2, <2>1, <2>2, <2>4
  <1>4. QED
    BY <1>3

\* What validateCapacity answers to a request: the content of CapacityIsClosest, and that a
\* capacity is of the width.
ClosestTo(r) ==
    IF ~WellFormed(r) \/ InRange(r) = {} THEN Capacity(r) = -1
    ELSE /\ Capacity(r) \in InRange(r)
         /\ \A x \in InRange(r) : IF r.min > 0 THEN Capacity(r) <= x ELSE x <= Capacity(r)

LEMMA CapacityValue ==
  ASSUME NEW r \in Request
  PROVE  ClosestTo(r)
  <1> DEFINE a == r.min
             b == r.max
             u == Wrap(a + Extent - 1)
             low == Floor(u)
             high == Floor(IF b = 0 THEN u ELSE b)
  <1>0. /\ Extent \in Nat \ {0} /\ MaxInt \in Nat /\ MaxInt > Extent
        /\ a \in -(MaxInt + 1)..MaxInt /\ b \in -(MaxInt + 1)..MaxInt /\ a \in Int /\ b \in Int
    BY NumbersAssumption DEF NumbersAssumption, Request
  <1>1. CASE ~WellFormed(r)
    <2>1. a < 0 \/ b < 0 \/ (a = 0 /\ b = 0)
      BY <1>0, <1>1 DEF WellFormed
    <2>2. Capacity(r) = -1
      BY <2>1 DEF Capacity, validateCapacity
    <2>3. QED
      BY <1>1, <2>2 DEF ClosestTo
  <1>2. CASE WellFormed(r) /\ b # 0 /\ b < a
    <2>1. Capacity(r) = -1
      BY <1>2 DEF Capacity, validateCapacity
    <2>2. InRange(r) = {}
      BY <1>0, <1>2, LastMultiple DEF InRange, WellFormed
    <2>3. QED
      BY <2>1, <2>2 DEF ClosestTo
  <1>3. CASE WellFormed(r) /\ ~(b # 0 /\ b < a) /\ a + Extent - 1 > MaxInt
    <2>1. a \in Nat /\ a + Extent - 1 \in Nat /\ a + Extent - 1 <= 2 * MaxInt + 1
      BY <1>0, <1>3 DEF WellFormed
    <2>2. u < 0
      BY <1>0, <1>3, <2>1, WrapValue
    <2>3. Capacity(r) = -1
      BY <2>2 DEF Capacity, validateCapacity
    <2>4. InRange(r) = {}
      BY <1>0, <1>3, LastMultiple DEF InRange
    <2>5. QED
      BY <2>3, <2>4 DEF ClosestTo
  <1>4. CASE WellFormed(r) /\ ~(b # 0 /\ b < a) /\ a + Extent - 1 <= MaxInt
    <2>1. /\ a \in 0..MaxInt /\ b \in 0..MaxInt /\ ~(a = 0 /\ b = 0)
          /\ a + Extent - 1 \in Nat /\ a + Extent - 1 <= 2 * MaxInt + 1
      BY <1>0, <1>4 DEF WellFormed
    <2>2. u = a + Extent - 1 /\ u \in 0..MaxInt /\ ~(u < 0)
      BY <1>0, <1>4, <2>1, WrapValue
    <2>3. Capacity(r) = IF low = 0 THEN high ELSE IF high < low THEN -1 ELSE low
      BY <1>0, <1>4, <2>1, <2>2 DEF Capacity, validateCapacity
    <2>4. low \in Multiples /\ a <= low /\ \A y \in Multiples : a <= y => low <= y
      BY <1>4, <2>1, <2>2, FloorSmallest
    <2>5. CASE a = 0
      <3>1. low = 0
        <4>1. 0 \in Multiples
          <5>1. PICK t \in Nat : t = MaxInt \div Extent
            BY <1>0, FloorValue
          <5>2. 0 \in 0..t /\ 0 = Extent * 0
            BY <1>0, <5>1
          <5>3. QED
            BY <5>1, <5>2 DEF Multiples
        <4>2. QED
          BY <2>1, <2>4, <2>5, <4>1, LastMultiple
      <3>2. b \in 0..MaxInt /\ b # 0 /\ high = Floor(b)
        BY <2>1, <2>5
      <3>3. high \in Multiples /\ high <= b /\ \A y \in Multiples : y <= b => y <= high
        BY <3>2, FloorLargest
      <3>4. Capacity(r) = high
        BY <2>3, <3>1
      <3>5. high \in InRange(r)
        BY <1>0, <2>1, <2>5, <3>3, LastMultiple DEF InRange
      <3>6. \A x \in InRange(r) : x <= high
        BY <1>0, <2>1, <3>2, <3>3 DEF InRange
      <3>7. QED
        BY <1>4, <2>5, <3>4, <3>5, <3>6 DEF ClosestTo
    <2>6. CASE a > 0 /\ (b # 0 => low <= b)
      <3>1. low > 0 /\ low \in Int
        BY <2>1, <2>4, <2>6, LastMultiple
      <3>2. low <= high /\ high \in Int
        <4>1. CASE b = 0
          BY <3>1, <4>1
        <4>2. CASE b # 0
          <5>1. high = Floor(b) /\ high \in Multiples
            BY <2>1, <4>2, FloorLargest
          <5>2. QED
            BY <2>1, <2>4, <2>6, <4>2, <5>1, FloorLargest, LastMultiple
        <4>3. QED
          BY <4>1, <4>2
      <3>3. Capacity(r) = low
        BY <2>3, <3>1, <3>2
      <3>4. low \in InRange(r)
        BY <1>0, <2>1, <2>4, <2>6 DEF InRange
      <3>5. \A x \in InRange(r) : low <= x
        BY <2>4 DEF InRange
      <3>6. QED
        BY <1>4, <2>6, <3>3, <3>4, <3>5 DEF ClosestTo
    <2>7. CASE a > 0 /\ b # 0 /\ ~(low <= b)
      <3>1. low > 0 /\ low \in Int
        BY <2>1, <2>4, <2>7, LastMultiple
      <3>2. high = Floor(b) /\ high \in Int /\ high <= b
        BY <2>1, <2>7, FloorLargest, LastMultiple
      <3>3. Capacity(r) = -1
        BY <2>1, <2>3, <2>7, <3>1, <3>2
      <3>4. InRange(r) = {}
        BY <1>0, <2>1, <2>4, <2>7, <3>1, LastMultiple DEF InRange
      <3>5. QED
        BY <3>3, <3>4 DEF ClosestTo
    <2>8. QED
      BY <2>1, <2>5, <2>6, <2>7
  <1>5. QED
    BY <1>0, <1>1, <1>2, <1>3, <1>4

\* A capacity is -1 or of the width.
LEMMA CapacityType ==
  ASSUME NEW r \in Request
  PROVE  Capacity(r) = -1 \/ Capacity(r) \in 0..MaxInt
  BY CapacityValue, LastMultiple DEF ClosestTo, InRange

-----------------------------------------------------------------------------
(* The inductive invariant. *)

Pcs == {"idle", "asked", "create", "compare", "update", "wait", "delete", "confirm", "ok"}
Call == [pc: Pcs, req: Requests \cup {NoRequest}, copy: Object]

\* What the creation asked for, whether or not the object is available yet.
AsAsked(r, x) ==
    /\ x.phase = "live" /\ x.source = r.source
    /\ r.name \in Vols => /\ x.mode = r.mode /\ x.params = r.params /\ Capacity(r) <= x.size
                          /\ \A cap \in r.caps : cap.type = x.type /\ cap.access \in x.access

\* y is x at a later time.
LaterOf(x, y) ==
    /\ y.mode = x.mode /\ y.params = x.params /\ y.type = x.type /\ y.access = x.access /\ y.source = x.source
    /\ x.size <= y.size /\ x.real <= y.real /\ (x.avail => y.avail)

\* A name has one object in its life. The cache may be behind, but once the orchestrator
\* knows of the object, a cache without it means that it is gone.
NameOK(n) ==
    /\ cache[n].phase # "none" /\ obj[n].phase # "none" => LaterOf(cache[n], obj[n])
    /\ known[n] \in {"no", "yes"} => obj[n].phase # "deleting" /\ (cache[n].phase # "none" => obj[n].phase = "live")
    /\ known[n] = "yes" => cache[n].phase # "none" /\ obj[n].avail
    /\ known[n] \in {"doomed", "gone"} /\ cache[n].phase = "none" => obj[n].phase = "none"

\* What a call relies on at each of its steps.
CallOK(c) ==
    LET r == call[c].req
        x == call[c].copy
        pc == call[c].pc
    IN
    /\ r = NoRequest <=> pc \in {"idle", "ok"}
    /\ r.op = "create" => pc \in {"asked", "create", "compare", "wait"} /\ known[r.name] \in {"no", "yes"}
    /\ r.op = "expand" => pc \in {"asked", "update", "wait"}
    /\ r.op = "delete" => pc \in {"asked", "delete", "confirm"} /\ known[r.name] \in {"doomed", "gone"}
    /\ pc = "create" => AsAsked(r, x) /\ x.real = 0 /\ ~x.avail /\ ~x.attached
    /\ pc = "update" => CanExpand(r, x) /\ x.size < Capacity(r)
    /\ pc = "wait" /\ r.op = "create" => AsAsked(r, obj[r.name])

Inv == TypeOK /\ (\A n \in Names : NameOK(n)) /\ (\A c \in Calls : CallOK(c))

-----------------------------------------------------------------------------
(* What the operators keep. *)

\* The types of what a call holds.
LEMMA CallParts ==
  ASSUME TypeOK, NEW c \in Calls
  PROVE  /\ call \in [Calls -> Call] /\ call[c] \in Call
         /\ call[c].pc \in Pcs /\ call[c].req \in Requests \cup {NoRequest} /\ call[c].copy \in Object
         /\ call[c].req # NoRequest =>
              /\ call[c].req \in Request /\ call[c].req.name \in Names
              /\ call[c].req.op \in {"create", "expand", "delete"}
         /\ call[c].req = NoRequest => call[c].req.op = "none"
  <1>1. call \in [Calls -> Call] /\ call[c] \in Call
    BY DEF TypeOK, Call, Pcs
  <1>2. call[c].pc \in Pcs /\ call[c].req \in Requests \cup {NoRequest} /\ call[c].copy \in Object
    BY <1>1 DEF Call
  <1>3. QED
    BY <1>1, <1>2, RequestsAssumption DEF RequestsAssumption, Request, NoRequest

LEMMA NullTypes == NoObject \in Object /\ Idle \in Call
  <1>1. NoObject \in Object
    BY NumbersAssumption DEF NoObject, Object, Modes, Types, NumbersAssumption
  <1>2. QED
    BY <1>1 DEF Idle, Call, Pcs

LEMMA GotoCall ==
  ASSUME TypeOK, NEW c \in Calls, NEW p \in Pcs, NEW x \in Object, Goto(c, p, x)
  PROVE  /\ call' \in [Calls -> Call] /\ known' = known
         /\ call'[c].pc = p /\ call'[c].req = call[c].req /\ call'[c].copy = x
         /\ \A d \in Calls \ {c} : call'[d] = call[d]
  BY CallParts DEF Goto, Call

LEMMA RefuseCall ==
  ASSUME TypeOK, NEW c \in Calls, Refuse(c)
  PROVE  /\ call' \in [Calls -> Call] /\ known' = known /\ call'[c] = Idle
         /\ \A d \in Calls \ {c} : call'[d] = call[d]
  BY CallParts, NullTypes DEF Refuse

LEMMA AnswerCall ==
  ASSUME TypeOK, NEW c \in Calls, call[c].req # NoRequest, Answer(c)
  PROVE  /\ call' \in [Calls -> Call] /\ call'[c].pc = "ok" /\ call'[c].req = NoRequest
         /\ \A d \in Calls \ {c} : call'[d] = call[d]
         /\ known' \in [Names -> {"no", "yes", "doomed", "gone"}]
         /\ \A n \in Names \ {call[c].req.name} : known'[n] = known[n]
         /\ call[c].req.op = "create" => known'[call[c].req.name] = "yes"
         /\ call[c].req.op = "delete" => known'[call[c].req.name] = "gone"
         /\ call[c].req.op = "expand" => known' = known
  <1>0. call \in [Calls -> Call] /\ call[c].req.name \in Names /\ call[c].req.op \in {"create", "expand", "delete"}
        /\ known \in [Names -> {"no", "yes", "doomed", "gone"}]
    BY CallParts DEF TypeOK
  <1>1. [Idle EXCEPT !.pc = "ok"] \in Call
    BY NullTypes DEF Idle, Call, Pcs
  <1>2. /\ call' \in [Calls -> Call] /\ call'[c].pc = "ok" /\ call'[c].req = NoRequest
        /\ \A d \in Calls \ {c} : call'[d] = call[d]
    BY <1>0, <1>1 DEF Answer, Idle
  <1>3. CASE call[c].req.op = "create"
    BY <1>0, <1>2, <1>3 DEF Answer
  <1>4. CASE call[c].req.op = "delete"
    BY <1>0, <1>2, <1>4 DEF Answer
  <1>5. CASE call[c].req.op = "expand"
    BY <1>0, <1>2, <1>5 DEF Answer
  <1>6. QED
    BY <1>0, <1>3, <1>4, <1>5

\* What was asked for stays so as the object grows.
LEMMA AsAskedLater ==
  ASSUME NEW r \in Request, NEW x \in Object, NEW y \in Object, AsAsked(r, x), LaterOf(x, y), y.phase = "live"
  PROVE  AsAsked(r, y)
  BY CapacityType, NumbersAssumption DEF AsAsked, LaterOf, Object, NumbersAssumption

LEMMA LaterTransitive ==
  ASSUME NEW x \in Object, NEW y \in Object, NEW z \in Object, LaterOf(x, y), LaterOf(y, z)
  PROVE  LaterOf(x, z)
  BY NumbersAssumption DEF LaterOf, Object, NumbersAssumption

\* What a call relies on survives the steps of others.
LEMMA OtherCall ==
  ASSUME TypeOK, TypeOK', NEW d \in Calls, CallOK(d), call'[d] = call[d],
         call[d].req.op = "create" =>
            /\ known'[call[d].req.name] \in {"no", "yes"}
            /\ obj[call[d].req.name].phase = "live" =>
                  /\ obj'[call[d].req.name].phase = "live"
                  /\ LaterOf(obj[call[d].req.name], obj'[call[d].req.name]),
         call[d].req.op = "delete" => known'[call[d].req.name] \in {"doomed", "gone"}
  PROVE  CallOK(d)'
  <1> DEFINE r == call[d].req
  <1>1. ASSUME call[d].pc = "wait", r.op = "create"
        PROVE  AsAsked(r, obj'[r.name])
    <2>1. r \in Request /\ r.name \in Names
      BY <1>1, CallParts
    <2>2. obj[r.name] \in Object /\ obj'[r.name] \in Object
      BY <2>1 DEF TypeOK
    <2>3. AsAsked(r, obj[r.name])
      BY <1>1 DEF CallOK
    <2>4. QED
      BY <1>1, <2>1, <2>2, <2>3, AsAskedLater DEF AsAsked
  <1>2. QED
    BY <1>1 DEF CallOK

\* A step that changes the names N and the calls D, and lets the objects of live names grow.
LEMMA StepKeeps ==
  ASSUME Inv, TypeOK', NEW N \in SUBSET Names, NEW D \in SUBSET Calls,
         \A n \in Names \ N : obj'[n] = obj[n] /\ cache'[n] = cache[n] /\ known'[n] = known[n],
         \A d \in Calls \ D : call'[d] = call[d],
         \A n \in N : /\ NameOK(n)'
                      /\ known[n] \in {"no", "yes"} => known'[n] \in {"no", "yes"}
                      /\ known[n] \in {"doomed", "gone"} => known'[n] \in {"doomed", "gone"}
                      /\ known[n] \in {"no", "yes"} /\ obj[n].phase = "live" =>
                            obj'[n].phase = "live" /\ LaterOf(obj[n], obj'[n]),
         \A d \in D : CallOK(d)'
  PROVE  Inv'
  <1>1. ASSUME NEW n \in Names \ N
        PROVE  NameOK(n)'
    BY <1>1 DEF Inv, NameOK
  <1>2. ASSUME NEW d \in Calls \ D
        PROVE  CallOK(d)'
    <2> DEFINE n == call[d].req.name
    <2>1. CallOK(d) /\ TypeOK
      BY DEF Inv
    <2>2. CASE call[d].req.op \notin {"create", "delete"}
      BY <2>1, <2>2, OtherCall
    <2>3. CASE call[d].req.op \in {"create", "delete"}
      <3>1. n \in Names /\ obj[n] \in Object
        BY <2>1, <2>3, CallParts DEF TypeOK
      <3>2. call[d].req.op = "create" => known[n] \in {"no", "yes"}
        BY <2>1 DEF CallOK
      <3>3. call[d].req.op = "delete" => known[n] \in {"doomed", "gone"}
        BY <2>1 DEF CallOK
      <3>4. CASE n \in N
        BY <2>1, <3>2, <3>3, <3>4, OtherCall
      <3>5. CASE n \notin N
        <4>1. obj'[n] = obj[n] /\ known'[n] = known[n] /\ LaterOf(obj[n], obj[n])
          BY <3>1, <3>5, NumbersAssumption DEF LaterOf, Object, NumbersAssumption
        <4>2. QED
          BY <2>1, <3>2, <3>3, <4>1, OtherCall
      <3>6. QED
        BY <3>4, <3>5
    <2>4. QED
      BY <2>2, <2>3
  <1>3. QED
    BY <1>1, <1>2 DEF Inv

\* A step of a call that changes nothing else.
LEMMA CallStepKeeps ==
  ASSUME Inv, NEW c \in Calls, UNCHANGED <<obj, cache, known, requests, stages>>,
         call' \in [Calls -> Call], \A d \in Calls \ {c} : call'[d] = call[d], CallOK(c)'
  PROVE  Inv'
  <1>1. TypeOK'
    BY DEF Inv, TypeOK, Call, Pcs
  <1> DEFINE N == {}
             D == {c}
  <1>2. N \in SUBSET Names /\ D \in SUBSET Calls
    OBVIOUS
  <1> HIDE DEF N, D
  <1>3. /\ \A n \in Names \ N : obj'[n] = obj[n] /\ cache'[n] = cache[n] /\ known'[n] = known[n]
        /\ \A d \in Calls \ D : call'[d] = call[d]
        /\ \A d \in D : CallOK(d)'
    BY DEF D
  <1>4. \A n \in N : FALSE
    BY DEF N
  <1>5. QED
    BY <1>1, <1>2, <1>3, <1>4, StepKeeps

LEMMA RefuseKeeps ==
  ASSUME Inv, NEW c \in Calls, Refuse(c), UNCHANGED <<obj, cache, requests, stages>>
  PROVE  Inv'
  <1>1. /\ call' \in [Calls -> Call] /\ known' = known /\ call'[c] = Idle
        /\ \A d \in Calls \ {c} : call'[d] = call[d]
    BY RefuseCall DEF Inv
  <1>2. CallOK(c)'
    BY <1>1 DEF CallOK, Idle, NoRequest
  <1>3. QED
    BY <1>1, <1>2, CallStepKeeps

\* A call answers with success, for a reason.
LEMMA AnswerKeeps ==
  ASSUME Inv, NEW c \in Calls, Answer(c), UNCHANGED <<obj, cache, requests, stages>>,
         call[c].req # NoRequest,
         call[c].req.op = "create" =>
            obj[call[c].req.name].avail /\ cache[call[c].req.name].phase # "none"
  PROVE  Inv'
  <1>n. PICK n \in Names : n = call[c].req.name
    BY CallParts DEF Inv
  <1> DEFINE N == {n}
             D == {c}
  <1>0. TypeOK /\ NameOK(n) /\ CallOK(c) /\ n = call[c].req.name /\ obj[n] \in Object
        /\ call[c].req.op \in {"create", "expand", "delete"}
    BY <1>n, CallParts DEF Inv, TypeOK
  <1>1. /\ call' \in [Calls -> Call] /\ call'[c].pc = "ok" /\ call'[c].req = NoRequest
        /\ \A d \in Calls \ {c} : call'[d] = call[d]
        /\ known' \in [Names -> {"no", "yes", "doomed", "gone"}]
        /\ \A k \in Names \ {n} : known'[k] = known[k]
        /\ call[c].req.op = "create" => known'[n] = "yes"
        /\ call[c].req.op = "delete" => known'[n] = "gone"
        /\ call[c].req.op = "expand" => known' = known
    BY <1>0, AnswerCall
  <1>2. TypeOK'
    BY <1>0, <1>1 DEF TypeOK, Call, Pcs
  <1>3. CallOK(c)'
    BY <1>1 DEF CallOK, NoRequest
  <1>4. NameOK(n)' /\ (known[n] \in {"no", "yes"} => known'[n] \in {"no", "yes"})
        /\ (known[n] \in {"doomed", "gone"} => known'[n] \in {"doomed", "gone"})
    <2>1. CASE call[c].req.op = "create"
      BY <1>0, <1>1, <2>1 DEF NameOK, CallOK
    <2>2. CASE call[c].req.op = "delete"
      BY <1>0, <1>1, <2>2 DEF NameOK, CallOK
    <2>3. CASE call[c].req.op = "expand"
      BY <1>0, <1>1, <2>3 DEF NameOK
    <2>4. QED
      BY <1>0, <2>1, <2>2, <2>3
  <1>5. LaterOf(obj[n], obj'[n])
    BY <1>0, NumbersAssumption DEF LaterOf, Object, NumbersAssumption
  <1>6. N \in SUBSET Names /\ D \in SUBSET Calls
    BY <1>0
  <1>7. /\ \A k \in Names \ N : obj'[k] = obj[k] /\ cache'[k] = cache[k] /\ known'[k] = known[k]
        /\ \A d \in Calls \ D : call'[d] = call[d]
        /\ \A d \in D : CallOK(d)'
    BY <1>1, <1>3
  <1>8. \A k \in N : k = n
    OBVIOUS
  <1> HIDE DEF N, D
  <1>9. QED
    BY <1>2, <1>4, <1>5, <1>6, <1>7, <1>8, StepKeeps

\* A step of a manager or of a node on one object.
LEMMA ObjectStepKeeps ==
  ASSUME Inv, NEW n \in Names, NEW y \in Object, obj' = [obj EXCEPT ![n] = y],
         UNCHANGED <<cache, call, known, requests>>, stages' \in 0..MaxStages,
         y.real <= y.size, y.phase = "none" => y = NoObject,
         y.phase = "none" \/ (y.phase = obj[n].phase /\ LaterOf(obj[n], y)),
         y.phase = "none" => known[n] \in {"doomed", "gone"},
         obj[n].phase # "none"
  PROVE  Inv'
  <1> DEFINE N == {n}
             D == {}
  <1>0. TypeOK /\ NameOK(n) /\ obj[n] \in Object /\ cache[n] \in Object
        /\ known[n] \in {"no", "yes", "doomed", "gone"}
    BY DEF Inv, TypeOK
  <1>1. obj'[n] = y /\ obj' \in [Names -> Object] /\ \A k \in Names \ {n} : obj'[k] = obj[k]
    BY <1>0 DEF TypeOK
  <1>2. TypeOK'
    BY <1>0, <1>1 DEF TypeOK
  <1>3. NameOK(n)'
    <2>1. CASE y.phase = "none"
      BY <1>0, <1>1, <2>1 DEF NameOK
    <2>2. CASE y.phase # "none"
      <3>1. cache[n].phase # "none" => LaterOf(cache[n], y)
        BY <1>0, <2>2, LaterTransitive DEF NameOK
      <3>2. QED
        BY <1>0, <1>1, <2>2, <3>1 DEF NameOK, LaterOf
    <2>3. QED
      BY <2>1, <2>2
  <1>4. /\ N \in SUBSET Names /\ D \in SUBSET Calls
        /\ \A k \in N : k = n
        /\ \A d \in D : FALSE
        /\ \A k \in Names \ N : obj'[k] = obj[k] /\ cache'[k] = cache[k] /\ known'[k] = known[k]
        /\ \A d \in Calls \ D : call'[d] = call[d]
    BY <1>1
  <1> HIDE DEF N, D
  <1>5. QED
    BY <1>0, <1>1, <1>2, <1>3, <1>4, StepKeeps

\* All capabilities of a request that is accepted are of one type, which is its volume's.
LEMMA OneType ==
  ASSUME NEW r \in Request, ConsistentType(r.caps)
  PROVE  getVolumeType(r.caps) \in Types /\ \A cap \in r.caps : cap.type = getVolumeType(r.caps)
  <1>1. PICK t \in Types : r.caps # {} /\ \A cap \in r.caps : cap.type = t
    BY DEF ConsistentType
  <1>2. (CHOOSE cap \in r.caps : TRUE) \in r.caps
    BY <1>1
  <1>3. QED
    BY <1>1, <1>2 DEF getVolumeType

\* The object of a creation is what was asked for.
LEMMA NewObjectAsAsked ==
  ASSUME TypeOK, NEW r \in Request, Accepted(r)
  PROVE  LET x == NewObject(r)
         IN  x \in Object /\ AsAsked(r, x) /\ x.real = 0 /\ ~x.avail /\ ~x.attached
  <1> DEFINE x == NewObject(r)
  <1>0. NoObject \in Object /\ 0 \in 0..MaxInt
    BY NullTypes, NumbersAssumption DEF NumbersAssumption
  <1>1. CASE r.name \in Vols
    <2>1. ConsistentType(r.caps) /\ Capacity(r) \in 0..MaxInt
      BY <1>1, CapacityType DEF Accepted
    <2>2. getVolumeType(r.caps) \in Types /\ \A cap \in r.caps : cap.type = getVolumeType(r.caps)
      BY <2>1, OneType
    <2>3. getVolumeAccessModes(r.caps) \in SUBSET AccessModes
          /\ \A cap \in r.caps : cap.access \in getVolumeAccessModes(r.caps)
      BY DEF getVolumeAccessModes, Request
    <2>4. r.mode \in Modes /\ r.params \in Nat /\ r.source \in Names \cup {None}
      BY DEF Request
    <2>5. x = [NoObject EXCEPT !.phase = "live", !.mode = r.mode, !.params = r.params, !.type = getVolumeType(r.caps),
                               !.access = getVolumeAccessModes(r.caps), !.source = r.source, !.size = Capacity(r)]
      BY <1>1 DEF NewObject
    <2>6. x \in Object
      BY <1>0, <2>1, <2>2, <2>3, <2>4, <2>5 DEF Object
    <2>7. x.real = 0 /\ ~x.avail /\ ~x.attached /\ x.phase = "live" /\ x.source = r.source
          /\ x.mode = r.mode /\ x.params = r.params /\ x.size = Capacity(r)
          /\ x.type = getVolumeType(r.caps) /\ x.access = getVolumeAccessModes(r.caps)
      BY <2>5 DEF NoObject
    <2>8. AsAsked(r, x)
      BY <2>1, <2>2, <2>3, <2>7 DEF AsAsked
    <2>9. QED
      BY <2>6, <2>7, <2>8
  <1>2. CASE r.name \notin Vols
    <2>1. r.source \in Names /\ cache[r.source] \in Object
      BY <1>2 DEF Accepted, TypeOK, Names
    <2>2. cache[r.source].params \in Nat /\ cache[r.source].real \in 0..MaxInt
      BY <2>1 DEF Object
    <2>3. x = [NoObject EXCEPT !.phase = "live", !.params = cache[r.source].params, !.source = r.source,
                               !.size = cache[r.source].real]
      BY <1>2 DEF NewObject
    <2>4. x \in Object
      BY <1>0, <2>1, <2>2, <2>3 DEF Object, NoObject
    <2>5. x.real = 0 /\ ~x.avail /\ ~x.attached /\ x.phase = "live" /\ x.source = r.source
      BY <2>3 DEF NoObject
    <2>6. QED
      BY <1>2, <2>4, <2>5 DEF AsAsked
  <1>3. QED
    BY <1>1, <1>2

\* An object that another request made and that matches is what was asked for.
LEMMA MatchesAsAsked ==
  ASSUME NEW r \in Request, NEW x \in Object, x.phase # "none", Matches(r, x)
  PROVE  AsAsked(r, x)
  <1>0. x.phase = "live"
    BY DEF Matches, validateVolume, Object
  <1>1. CASE r.name \in Vols
    <2>1. /\ Capacity(r) <= x.size /\ r.source = x.source /\ r.params = x.params /\ r.mode = x.mode
          /\ ConsistentType(r.caps) /\ getVolumeType(r.caps) = x.type
          /\ getVolumeAccessModes(r.caps) \subseteq x.access
      BY <1>1 DEF Matches, validateVolume, validateCapabilities
    <2>2. \A cap \in r.caps : cap.type = x.type
      BY <2>1, OneType
    <2>3. \A cap \in r.caps : cap.access \in x.access
      BY <2>1 DEF getVolumeAccessModes
    <2>4. QED
      BY <1>0, <2>1, <2>2, <2>3 DEF AsAsked
  <1>2. CASE r.name \notin Vols
    BY <1>0, <1>2 DEF Matches, AsAsked
  <1>3. QED
    BY <1>1, <1>2

\* What the cache shows of an object whose creation is under way is true of it.
LEMMA CacheIsTrue ==
  ASSUME Inv, NEW n \in Names, known[n] \in {"no", "yes"}, cache[n].phase # "none"
  PROVE  /\ obj[n].phase = "live" /\ LaterOf(cache[n], obj[n]) /\ (cache[n].avail => obj[n].avail)
         /\ cache[n] \in Object /\ obj[n] \in Object
  BY DEF Inv, NameOK, LaterOf, TypeOK

-----------------------------------------------------------------------------
(* Every step keeps the invariant. *)

LEMMA InvInit == Init => Inv
  <1> SUFFICES ASSUME Init
               PROVE  Inv
    OBVIOUS
  <1>1. TypeOK
    <2>1. obj \in [Names -> Object] /\ cache \in [Names -> Object] /\ call \in [Calls -> Call]
      BY NullTypes DEF Init
    <2>2. \A n \in Names : obj[n] = NoObject /\ obj[n].real <= obj[n].size
      BY DEF Init, NoObject
    <2>3. known \in [Names -> {"no", "yes", "doomed", "gone"}] /\ requests \in 0..MaxRequests /\ stages \in 0..MaxStages
      BY NumbersAssumption DEF Init, NumbersAssumption
    <2>4. QED
      BY <2>1, <2>2, <2>3 DEF TypeOK, Call, Pcs
  <1>2. \A n \in Names : NameOK(n)
    BY DEF Init, NameOK, NoObject
  <1>3. \A c \in Calls : CallOK(c)
    BY DEF Init, CallOK, Idle, NoRequest
  <1>4. QED
    BY <1>1, <1>2, <1>3 DEF Inv

\* The steps of CreateVolume and CreateSnapshot.
LEMMA CreateSteps ==
  ASSUME Inv, NEW c \in Calls, CheckCreate(c) \/ Create(c) \/ Compare(c)
  PROVE  Inv'
  <1> DEFINE r == call[c].req
             x == call[c].copy
  <1>0. r \in Request /\ r.op = "create" /\ r # NoRequest
    BY CallParts DEF Inv, CheckCreate, Create, Compare, At
  <1>n. PICK n \in Names : n = r.name
    BY <1>0 DEF Request
  <1>1. TypeOK /\ CallOK(c) /\ NameOK(n) /\ known[n] \in {"no", "yes"} /\ x \in Object
        /\ obj[n] \in Object /\ cache[n] \in Object /\ obj \in [Names -> Object]
        /\ known \in [Names -> {"no", "yes", "doomed", "gone"}]
        /\ {"create", "wait", "compare"} \subseteq Pcs
    BY <1>0, <1>n, CallParts DEF Inv, CallOK, TypeOK, Pcs
  <1>2. CASE CheckCreate(c)
    <2>1. CASE Accepted(r)
      <3>1. NewObject(r) \in Object /\ Goto(c, "create", NewObject(r)) /\ UNCHANGED <<obj, cache, requests, stages>>
        BY <1>0, <1>1, <1>2, <2>1, NewObjectAsAsked DEF CheckCreate
      <3>2. /\ call' \in [Calls -> Call] /\ known' = known
            /\ call'[c].pc = "create" /\ call'[c].req = r /\ call'[c].copy = NewObject(r)
            /\ \A d \in Calls \ {c} : call'[d] = call[d]
        BY <1>1, <3>1, GotoCall
      <3>3. AsAsked(r, NewObject(r)) /\ NewObject(r).real = 0 /\ ~NewObject(r).avail /\ ~NewObject(r).attached
        BY <1>0, <1>1, <2>1, NewObjectAsAsked
      <3>4. CallOK(c)'
        BY <1>0, <1>n, <1>1, <3>2, <3>3 DEF CallOK
      <3>5. QED
        BY <3>1, <3>2, <3>4, CallStepKeeps
    <2>2. CASE ~Accepted(r)
      BY <1>2, <2>2, RefuseKeeps DEF CheckCreate
    <2>3. QED
      BY <2>1, <2>2
  <1>3. CASE Create(c)
    <2>1. CASE Refuse(c) /\ UNCHANGED obj
      BY <1>3, <2>1, RefuseKeeps DEF Create
    <2>2. CASE Goto(c, "compare", NoObject) /\ UNCHANGED obj
      <3>1. /\ call' \in [Calls -> Call] /\ known' = known
            /\ call'[c].pc = "compare" /\ call'[c].req = r
            /\ \A d \in Calls \ {c} : call'[d] = call[d]
        BY <1>1, <2>2, GotoCall, NullTypes
      <3>2. CallOK(c)'
        BY <1>0, <1>n, <1>1, <3>1 DEF CallOK
      <3>3. QED
        BY <1>3, <2>2, <3>1, <3>2, CallStepKeeps DEF Create
    <2>3. CASE obj[n].phase = "none" /\ obj' = [obj EXCEPT ![n] = x] /\ Goto(c, "wait", NoObject)
      <3>1. /\ call' \in [Calls -> Call] /\ known' = known
            /\ call'[c].pc = "wait" /\ call'[c].req = r
            /\ \A d \in Calls \ {c} : call'[d] = call[d]
        BY <1>1, <2>3, GotoCall, NullTypes
      <3>2. AsAsked(r, x) /\ x.real = 0 /\ ~x.avail /\ x.phase = "live" /\ x.real <= x.size
        BY <1>1, <1>3, NumbersAssumption DEF Create, At, CallOK, AsAsked, Object, NumbersAssumption
      <3>3. obj' \in [Names -> Object] /\ obj'[n] = x /\ \A k \in Names \ {n} : obj'[k] = obj[k]
        BY <1>1, <2>3
      <3>4. UNCHANGED <<cache, requests, stages>>
        BY <1>3 DEF Create
      <3>5. TypeOK'
        BY <1>1, <3>1, <3>2, <3>3, <3>4 DEF TypeOK, Call, Pcs
      <3>6. CallOK(c)'
        BY <1>0, <1>n, <1>1, <3>1, <3>2, <3>3 DEF CallOK
      <3>7. NameOK(n)'
        BY <1>1, <2>3, <3>1, <3>2, <3>3, <3>4 DEF NameOK, NoObject, TypeOK
      <3> DEFINE N == {n}
                 D == {c}
      <3>8. /\ N \in SUBSET Names /\ D \in SUBSET Calls
            /\ \A k \in N : k = n
            /\ \A d \in D : CallOK(d)'
            /\ \A k \in Names \ N : obj'[k] = obj[k] /\ cache'[k] = cache[k] /\ known'[k] = known[k]
            /\ \A d \in Calls \ D : call'[d] = call[d]
        BY <3>1, <3>3, <3>4, <3>6
      <3> HIDE DEF N, D
      <3>9. QED
        BY <2>3, <3>1, <3>5, <3>7, <3>8, StepKeeps
    <2>4. QED
      BY <1>n, <1>3, <2>1, <2>2, <2>3 DEF Create
  <1>4. CASE Compare(c)
    <2>1. CASE ~(cache[n].phase # "none" /\ Matches(r, cache[n]))
      BY <1>n, <1>4, <2>1, RefuseKeeps DEF Compare
    <2>2. CASE cache[n].phase # "none" /\ Matches(r, cache[n])
      <3>1. AsAsked(r, cache[n])
        BY <1>0, <1>1, <2>2, MatchesAsAsked
      <3>2. obj[n].phase = "live" /\ LaterOf(cache[n], obj[n]) /\ (cache[n].avail => obj[n].avail)
        BY <1>1, <2>2, CacheIsTrue
      <3>3. AsAsked(r, obj[n])
        BY <1>0, <1>1, <3>1, <3>2, AsAskedLater
      <3>4. CASE Done(r, cache[n])
        BY <1>0, <1>n, <1>4, <2>2, <3>2, <3>4, AnswerKeeps DEF Compare, WaitFrom, Done
      <3>5. CASE ~Done(r, cache[n])
        <4>1. Goto(c, "wait", NoObject) /\ UNCHANGED <<obj, cache, requests, stages>>
          BY <1>n, <1>4, <2>2, <3>5 DEF Compare, WaitFrom
        <4>2. /\ call' \in [Calls -> Call] /\ known' = known
              /\ call'[c].pc = "wait" /\ call'[c].req = r
              /\ \A d \in Calls \ {c} : call'[d] = call[d]
          BY <1>1, <4>1, GotoCall, NullTypes
        <4>3. CallOK(c)'
          BY <1>0, <1>n, <1>1, <3>3, <4>1, <4>2 DEF CallOK
        <4>4. QED
          BY <4>1, <4>2, <4>3, CallStepKeeps
      <3>6. QED
        BY <3>4, <3>5
    <2>3. QED
      BY <2>1, <2>2
  <1>5. QED
    BY <1>2, <1>3, <1>4

\* The end of the wait of a call.
LEMMA PollStep ==
  ASSUME Inv, NEW c \in Calls, Poll(c)
  PROVE  Inv'
  <1> DEFINE r == call[c].req
  <1>1. call[c].pc = "wait" /\ Done(r, cache[r.name]) /\ Answer(c) /\ UNCHANGED <<obj, cache, requests, stages>>
    BY DEF Poll
  <1>2. CallOK(c) /\ r # NoRequest /\ r.name \in Names
    BY <1>1, CallParts DEF Inv, CallOK
  <1>3. r.op = "create" => obj[r.name].avail /\ cache[r.name].phase # "none"
    BY <1>1, <1>2, CacheIsTrue DEF Done, CallOK
  <1>4. QED
    BY <1>1, <1>2, <1>3, AnswerKeeps

\* A call waits for the managers.
LEMMA WaitKeeps ==
  ASSUME Inv, NEW c \in Calls, call[c].req.op = "expand", NEW x, WaitFrom(c, x),
         UNCHANGED <<obj, cache, requests, stages>>
  PROVE  Inv'
  <1>0. TypeOK /\ CallOK(c) /\ call[c].req # NoRequest /\ "wait" \in Pcs
    BY CallParts DEF Inv, NoRequest, Pcs
  <1>1. CASE Answer(c)
    BY <1>0, <1>1, AnswerKeeps
  <1>2. CASE Goto(c, "wait", NoObject)
    <2>1. /\ call' \in [Calls -> Call] /\ known' = known
          /\ call'[c].pc = "wait" /\ call'[c].req = call[c].req
          /\ \A d \in Calls \ {c} : call'[d] = call[d]
      BY <1>0, <1>2, GotoCall, NullTypes
    <2>2. CallOK(c)'
      BY <1>0, <2>1 DEF CallOK
    <2>3. QED
      BY <2>1, <2>2, CallStepKeeps
  <1>3. QED
    BY <1>1, <1>2 DEF WaitFrom

\* The Update of an expansion writes a larger size, and waits.
LEMMA ExpandUpdate ==
  ASSUME Inv, NEW c \in Calls, Expand(c), NEW n \in Names, n = call[c].req.name
  PROVE  LET y == [obj[n] EXCEPT !.size = Capacity(call[c].req)]
         IN  /\ obj' = [obj EXCEPT ![n] = y] /\ y \in Object /\ y.phase # "none" /\ y.phase = obj[n].phase
             /\ obj[n].size < y.size /\ y.real <= y.size /\ LaterOf(obj[n], y)
             /\ ~(obj[n].mode = "Linear" /\ obj[n].attached)
             /\ Goto(c, "wait", NoObject) /\ UNCHANGED <<cache, requests, stages>>
  <1> DEFINE r == call[c].req
             y == [obj[n] EXCEPT !.size = Capacity(r)]
  <1>1. At(c, "expand", "update") /\ obj[n] = call[c].copy /\ r \in Request /\ r.op = "expand"
        /\ obj[n] \in Object /\ CallOK(c) /\ obj[n].real <= obj[n].size
    BY CallParts DEF Inv, Expand, At, TypeOK
  <1>2. CanExpand(r, obj[n]) /\ obj[n].size < Capacity(r)
    BY <1>1 DEF CallOK, At
  <1>3. Capacity(r) \in 0..MaxInt /\ MaxInt \in Nat
    BY <1>1, <1>2, CapacityType, NumbersAssumption DEF CanExpand, NumbersAssumption
  <1>4. y \in Object /\ y.phase = obj[n].phase /\ y.size = Capacity(r) /\ y.real = obj[n].real
        /\ LaterOf(obj[n], y) /\ y.real <= y.size
    BY <1>1, <1>2, <1>3 DEF Object, LaterOf
  <1>5. ~Done(r, y)
    BY <1>1, <1>2, <1>3, <1>4 DEF Done, Object
  <1>6. obj' = [obj EXCEPT ![n] = y] /\ WaitFrom(c, y) /\ UNCHANGED <<cache, requests, stages>>
    BY <1>1 DEF Expand
  <1>7. QED
    BY <1>1, <1>2, <1>4, <1>5, <1>6 DEF WaitFrom, CanExpand

\* The steps of ControllerExpandVolume.
LEMMA ExpandSteps ==
  ASSUME Inv, NEW c \in Calls, CheckExpand(c) \/ Expand(c) \/ RetryExpand(c)
  PROVE  Inv'
  <1> DEFINE r == call[c].req
  <1>0. r \in Request /\ r.op = "expand" /\ r # NoRequest
    BY CallParts DEF Inv, CheckExpand, Expand, RetryExpand, At
  <1>n. PICK n \in Names : n = r.name
    BY <1>0 DEF Request
  <1>1. TypeOK /\ CallOK(c) /\ NameOK(n) /\ obj[n] \in Object /\ cache[n] \in Object
        /\ obj \in [Names -> Object] /\ known \in [Names -> {"no", "yes", "doomed", "gone"}]
        /\ {"update", "wait", "asked"} \subseteq Pcs
    BY <1>n DEF Inv, TypeOK, Pcs
  <1>2. CASE CheckExpand(c)
    <2>1. CASE Refuse(c)
      BY <1>2, <2>1, RefuseKeeps DEF CheckExpand
    <2>2. CASE CanExpand(r, cache[n]) /\ Capacity(r) > cache[n].size /\ Goto(c, "update", cache[n])
      <3>1. /\ call' \in [Calls -> Call] /\ known' = known
            /\ call'[c].pc = "update" /\ call'[c].req = r /\ call'[c].copy = cache[n]
            /\ \A d \in Calls \ {c} : call'[d] = call[d]
        BY <1>1, <2>2, GotoCall
      <3>2. Capacity(r) > cache[n].size => cache[n].size < Capacity(r)
        BY <1>0, <1>1, CapacityType, NumbersAssumption DEF Object, NumbersAssumption
      <3>3. CallOK(c)'
        BY <1>0, <1>1, <2>2, <3>1, <3>2 DEF CallOK
      <3>4. QED
        BY <1>2, <3>1, <3>3, CallStepKeeps DEF CheckExpand
    <2>3. CASE WaitFrom(c, cache[n])
      BY <1>0, <1>2, <2>3, WaitKeeps DEF CheckExpand
    <2>4. QED
      BY <1>n, <1>2, <2>1, <2>2, <2>3 DEF CheckExpand
  <1>3. CASE Expand(c)
    <2> DEFINE y == [obj[n] EXCEPT !.size = Capacity(r)]
    <2>1. /\ obj' = [obj EXCEPT ![n] = y] /\ y \in Object /\ y.phase # "none" /\ y.phase = obj[n].phase
          /\ y.real <= y.size /\ LaterOf(obj[n], y)
          /\ Goto(c, "wait", NoObject) /\ UNCHANGED <<cache, requests, stages>>
      BY <1>n, <1>3, ExpandUpdate
    <2>2. /\ call' \in [Calls -> Call] /\ known' = known
          /\ call'[c].pc = "wait" /\ call'[c].req = r
          /\ \A d \in Calls \ {c} : call'[d] = call[d]
      BY <1>1, <2>1, GotoCall, NullTypes
    <2>3. obj' \in [Names -> Object] /\ obj'[n] = y /\ \A k \in Names \ {n} : obj'[k] = obj[k]
      BY <1>1, <2>1
    <2>4. TypeOK'
      BY <1>1, <2>1, <2>2, <2>3 DEF TypeOK, Call, Pcs
    <2>5. CallOK(c)'
      BY <1>0, <1>1, <2>2 DEF CallOK
    <2>6. cache[n].phase # "none" => LaterOf(cache[n], y)
      BY <1>1, <2>1, LaterTransitive DEF NameOK
    <2>7. NameOK(n)'
      BY <1>1, <2>1, <2>2, <2>3, <2>6 DEF NameOK, LaterOf
    <2> DEFINE N == {n}
               D == {c}
    <2>8. /\ N \in SUBSET Names /\ D \in SUBSET Calls
          /\ \A k \in N : k = n
          /\ \A d \in D : CallOK(d)'
          /\ \A k \in Names \ N : obj'[k] = obj[k] /\ cache'[k] = cache[k] /\ known'[k] = known[k]
          /\ \A d \in Calls \ D : call'[d] = call[d]
      BY <2>1, <2>2, <2>3, <2>5
    <2> HIDE DEF N, D, y
    <2>9. QED
      BY <2>1, <2>2, <2>3, <2>4, <2>7, <2>8, StepKeeps
  <1>4. CASE RetryExpand(c)
    <2>1. CASE Refuse(c)
      BY <1>4, <2>1, RefuseKeeps DEF RetryExpand
    <2>2. CASE Goto(c, "asked", NoObject)
      <3>1. /\ call' \in [Calls -> Call] /\ known' = known
            /\ call'[c].pc = "asked" /\ call'[c].req = r
            /\ \A d \in Calls \ {c} : call'[d] = call[d]
        BY <1>1, <2>2, GotoCall, NullTypes
      <3>2. CallOK(c)'
        BY <1>0, <3>1 DEF CallOK
      <3>3. QED
        BY <1>4, <3>1, <3>2, CallStepKeeps DEF RetryExpand
    <2>3. QED
      BY <1>4, <2>1, <2>2 DEF RetryExpand
  <1>5. QED
    BY <1>2, <1>3, <1>4

\* The steps of DeleteVolume and DeleteSnapshot.
LEMMA DeleteSteps ==
  ASSUME Inv, NEW c \in Calls, CheckDelete(c) \/ Delete(c) \/ Confirm(c)
  PROVE  Inv'
  <1> DEFINE r == call[c].req
  <1>0. r \in Request /\ r.op = "delete" /\ r # NoRequest
    BY CallParts DEF Inv, CheckDelete, Delete, Confirm, At
  <1>n. PICK n \in Names : n = r.name
    BY <1>0 DEF Request
  <1>1. TypeOK /\ CallOK(c) /\ NameOK(n) /\ obj[n] \in Object /\ cache[n] \in Object
        /\ obj \in [Names -> Object] /\ known \in [Names -> {"no", "yes", "doomed", "gone"}]
        /\ {"delete", "confirm"} \subseteq Pcs /\ known[n] \in {"doomed", "gone"}
    BY <1>0, <1>n DEF Inv, TypeOK, Pcs, CallOK
  <1>2. CASE Answer(c) /\ UNCHANGED <<obj, cache, requests, stages>>
    BY <1>0, <1>2, AnswerKeeps
  <1>3. CASE Refuse(c) /\ UNCHANGED <<obj, cache, requests, stages>>
    BY <1>3, RefuseKeeps
  <1>4. CASE Goto(c, "delete", NoObject) /\ UNCHANGED <<obj, cache, requests, stages>>
    <2>1. /\ call' \in [Calls -> Call] /\ known' = known
          /\ call'[c].pc = "delete" /\ call'[c].req = r
          /\ \A d \in Calls \ {c} : call'[d] = call[d]
      BY <1>1, <1>4, GotoCall, NullTypes
    <2>2. CallOK(c)'
      BY <1>0, <1>n, <1>1, <2>1 DEF CallOK
    <2>3. QED
      BY <1>4, <2>1, <2>2, CallStepKeeps
  <1>5. CASE /\ obj[n].phase # "none" /\ obj' = [obj EXCEPT ![n].phase = "deleting"]
             /\ Goto(c, "confirm", NoObject) /\ UNCHANGED <<cache, requests, stages>>
    <2> DEFINE y == [obj[n] EXCEPT !.phase = "deleting"]
    <2>1. obj' \in [Names -> Object] /\ obj'[n] = y /\ y \in Object /\ \A k \in Names \ {n} : obj'[k] = obj[k]
      BY <1>1, <1>5 DEF Object
    <2>2. /\ call' \in [Calls -> Call] /\ known' = known
          /\ call'[c].pc = "confirm" /\ call'[c].req = r
          /\ \A d \in Calls \ {c} : call'[d] = call[d]
      BY <1>1, <1>5, GotoCall, NullTypes
    <2>3. y.phase = "deleting" /\ y.real = obj[n].real /\ y.size = obj[n].size /\ LaterOf(obj[n], y)
      BY <1>1, NumbersAssumption DEF Object, LaterOf, NumbersAssumption
    <2>4. TypeOK'
      BY <1>1, <1>5, <2>1, <2>2, <2>3 DEF TypeOK, Call, Pcs
    <2>5. CallOK(c)'
      BY <1>0, <1>n, <1>1, <2>2 DEF CallOK
    <2>6. cache[n].phase # "none" => LaterOf(cache[n], y)
      BY <1>1, <1>5, <2>1, <2>3, LaterTransitive DEF NameOK
    <2>7. NameOK(n)'
      BY <1>1, <1>5, <2>1, <2>2, <2>3, <2>6 DEF NameOK
    <2> DEFINE N == {n}
               D == {c}
    <2>8. /\ N \in SUBSET Names /\ D \in SUBSET Calls
          /\ \A k \in N : k = n
          /\ \A d \in D : CallOK(d)'
          /\ \A k \in Names \ N : obj'[k] = obj[k] /\ cache'[k] = cache[k] /\ known'[k] = known[k]
          /\ \A d \in Calls \ D : call'[d] = call[d]
      BY <1>5, <2>1, <2>2, <2>5
    <2> HIDE DEF N, D, y
    <2>9. QED
      BY <1>1, <2>2, <2>4, <2>7, <2>8, StepKeeps
  <1>6. QED
    BY <1>n, <1>2, <1>3, <1>4, <1>5 DEF CheckDelete, Delete, Confirm

\* A new request.
LEMMA AskStep ==
  ASSUME Inv, NEW c \in Calls, NEW r \in Requests, Ask(c, r)
  PROVE  Inv'
  <1>0. /\ TypeOK /\ r \in Request /\ r # NoRequest /\ r.name \in Names /\ r.op \in {"create", "expand", "delete"}
        /\ known \in [Names -> {"no", "yes", "doomed", "gone"}] /\ call \in [Calls -> Call]
    BY RequestsAssumption, CallParts DEF Inv, TypeOK, RequestsAssumption, Request, NoRequest
  <1>1. /\ MayRequest(r) /\ requests' \in 0..MaxRequests /\ UNCHANGED <<obj, cache, stages>>
        /\ call' = [call EXCEPT ![c] = [pc |-> "asked", req |-> r, copy |-> NoObject]]
        /\ known' = IF r.op = "delete" THEN [known EXCEPT ![r.name] = "doomed"] ELSE known
    BY <1>0, NumbersAssumption DEF Ask, TypeOK, NumbersAssumption
  <1>2. /\ call' \in [Calls -> Call] /\ call'[c].pc = "asked" /\ call'[c].req = r
        /\ \A d \in Calls \ {c} : call'[d] = call[d]
    BY <1>0, <1>1, NullTypes DEF Call, Pcs
  <1>3. /\ known' \in [Names -> {"no", "yes", "doomed", "gone"}]
        /\ r.op # "delete" => known' = known
        /\ r.op = "delete" => known'[r.name] = "doomed" /\ \A k \in Names \ {r.name} : known'[k] = known[k]
    BY <1>0, <1>1
  <1>4. /\ r.op = "create" => known[r.name] \in {"no", "yes"}
        /\ r.op = "delete" => known[r.name] \in {"yes", "doomed"} /\ ~Busy({"create", "delete"}, r.name)
    BY <1>0, <1>1 DEF MayRequest
  <1>5. TypeOK'
    BY <1>0, <1>1, <1>2, <1>3 DEF TypeOK, Call, Pcs
  <1>6. ASSUME NEW n \in Names
        PROVE  NameOK(n)'
    <2>1. NameOK(n)
      BY DEF Inv
    <2>2. CASE known'[n] = known[n]
      BY <1>1, <2>1, <2>2 DEF NameOK
    <2>3. CASE known'[n] # known[n]
      BY <1>0, <1>1, <1>3, <1>4, <2>1, <2>3 DEF NameOK
    <2>4. QED
      BY <2>2, <2>3
  <1>7. CallOK(c)'
    BY <1>0, <1>2, <1>3, <1>4 DEF CallOK
  <1>8. ASSUME NEW d \in Calls, d # c
        PROVE  CallOK(d)'
    <2>1. CallOK(d) /\ call'[d] = call[d]
      BY <1>2, <1>8 DEF Inv
    <2>2. CASE call[d].req.op \notin {"create", "delete"}
      BY <1>0, <1>5, <2>1, <2>2, OtherCall
    <2>3. CASE call[d].req.op \in {"create", "delete"}
      <3> DEFINE n == call[d].req.name
      <3>1. n \in Names /\ call[d].req # NoRequest /\ obj[n] \in Object
        BY <1>0, <2>3, CallParts DEF TypeOK
      <3>2. call[d].pc \notin {"idle", "ok"}
        BY <2>1, <3>1 DEF CallOK
      <3>3. known'[n] = known[n] \/ n # r.name \/ r.op # "delete"
        BY <1>4, <2>3, <3>2 DEF Busy
      <3>4. known'[n] = known[n]
        BY <1>3, <3>1, <3>3
      <3>5. LaterOf(obj[n], obj'[n]) /\ obj'[n] = obj[n]
        BY <1>1, <3>1, NumbersAssumption DEF LaterOf, Object, NumbersAssumption
      <3>6. QED
        BY <1>0, <1>5, <2>1, <3>4, <3>5, OtherCall DEF CallOK
    <2>4. QED
      BY <2>2, <2>3
  <1>9. QED
    BY <1>5, <1>6, <1>7, <1>8 DEF Inv

\* The cache follows.
LEMMA WatchStep ==
  ASSUME Inv, NEW n \in Names, Watch(n)
  PROVE  Inv'
  <1> DEFINE N == {n}
             D == {}
  <1>0. TypeOK /\ NameOK(n) /\ obj[n] \in Object
    BY DEF Inv, TypeOK
  <1>1. cache' = [cache EXCEPT ![n] = obj[n]] /\ UNCHANGED <<obj, call, known, requests, stages>>
    BY DEF Watch
  <1>2. cache'[n] = obj[n] /\ cache' \in [Names -> Object] /\ \A k \in Names \ {n} : cache'[k] = cache[k]
    BY <1>0, <1>1 DEF TypeOK
  <1>3. TypeOK'
    BY <1>0, <1>1, <1>2 DEF TypeOK
  <1>4. LaterOf(obj[n], obj[n])
    BY <1>0, NumbersAssumption DEF LaterOf, Object, NumbersAssumption
  <1>5. NameOK(n)'
    BY <1>0, <1>1, <1>2, <1>4 DEF NameOK, Object
  <1>6. /\ N \in SUBSET Names /\ D \in SUBSET Calls
        /\ \A k \in N : k = n
        /\ \A d \in D : FALSE
        /\ \A k \in Names \ N : obj'[k] = obj[k] /\ cache'[k] = cache[k] /\ known'[k] = known[k]
        /\ \A d \in Calls \ D : call'[d] = call[d]
    BY <1>1, <1>2
  <1> HIDE DEF N, D
  <1>7. QED
    BY <1>1, <1>3, <1>4, <1>5, <1>6, StepKeeps

\* The steps of the nodes and of the managers.
LEMMA ObjectSteps ==
  ASSUME Inv, NEW n \in Names, Stage(n) \/ Unstage(n) \/ Provide(n) \/ Remove(n)
  PROVE  Inv'
  <1> DEFINE x == obj[n]
  <1>0. TypeOK /\ NameOK(n) /\ x \in Object /\ x.real <= x.size /\ (x.phase = "none" => x = NoObject)
        /\ MaxInt \in Nat /\ known[n] \in {"no", "yes", "doomed", "gone"}
    BY NumbersAssumption DEF Inv, TypeOK, NumbersAssumption
  <1>o. x \in Object /\ x.real \in Nat /\ x.size \in Nat /\ x.real <= x.size
    BY <1>0 DEF Object
  <1>1. CASE Stage(n)
    <2> DEFINE y == [x EXCEPT !.attached = TRUE]
    <2>1. obj' = [obj EXCEPT ![n] = y] /\ UNCHANGED <<cache, call, known, requests>> /\ stages' \in 0..MaxStages
          /\ known[n] = "yes"
      BY <1>0, <1>1, NumbersAssumption DEF Stage, TypeOK, NumbersAssumption
    <2>2. x.phase = "live"
      BY <1>0, <2>1 DEF NameOK
    <2>3. y \in Object /\ y.phase = "live" /\ y.real <= y.size /\ LaterOf(x, y)
      <3>1. y \in Object
        BY <1>o DEF Object
      <3>2. y.phase = "live" /\ y.real <= y.size
        BY <1>o, <2>2 DEF Object
      <3>3. LaterOf(x, y)
        BY <1>o DEF Object, LaterOf
      <3>4. QED
        BY <3>1, <3>2, <3>3
    <2> HIDE DEF y
    <2>4. QED
      BY <2>1, <2>2, <2>3, ObjectStepKeeps
  <1>2. CASE Unstage(n)
    <2> DEFINE y == [x EXCEPT !.attached = FALSE]
    <2>1. obj' = [obj EXCEPT ![n] = y] /\ UNCHANGED <<cache, call, known, requests>> /\ stages' \in 0..MaxStages
          /\ x.attached
      BY <1>0, <1>2 DEF Unstage, TypeOK
    <2>2. x.phase # "none"
      BY <1>0, <2>1 DEF NoObject
    <2>3. y \in Object /\ y.phase = x.phase /\ y.real <= y.size /\ LaterOf(x, y)
      <3>1. y \in Object
        BY <1>o DEF Object
      <3>2. y.phase = x.phase /\ y.real <= y.size
        BY <1>o DEF Object
      <3>3. LaterOf(x, y)
        BY <1>o DEF Object, LaterOf
      <3>4. QED
        BY <3>1, <3>2, <3>3
    <2> HIDE DEF y
    <2>4. QED
      BY <2>1, <2>2, <2>3, ObjectStepKeeps
  <1>3. CASE Provide(n)
    <2> DEFINE y == [x EXCEPT !.avail = TRUE, !.real = x.size]
    <2>1. obj' = [obj EXCEPT ![n] = y] /\ UNCHANGED <<cache, call, known, requests>> /\ stages' \in 0..MaxStages
          /\ x.phase = "live"
      BY <1>0, <1>3 DEF Provide, TypeOK
    <2>2. y \in Object /\ y.phase = x.phase /\ y.real <= y.size /\ LaterOf(x, y)
      <3>1. y \in Object
        BY <1>o DEF Object
      <3>2. y.phase = x.phase /\ y.real <= y.size
        BY <1>o DEF Object
      <3>3. LaterOf(x, y)
        BY <1>o DEF Object, LaterOf
      <3>4. QED
        BY <3>1, <3>2, <3>3
    <2> HIDE DEF y
    <2>3. QED
      BY <2>1, <2>2, ObjectStepKeeps
  <1>4. CASE Remove(n)
    <2>1. obj' = [obj EXCEPT ![n] = NoObject] /\ UNCHANGED <<cache, call, known, requests>> /\ stages' \in 0..MaxStages
          /\ x.phase = "deleting"
      BY <1>0, <1>4 DEF Remove, TypeOK
    <2>2. known[n] \in {"doomed", "gone"}
      BY <1>0, <2>1 DEF NameOK
    <2>3. NoObject \in Object /\ NoObject.real <= NoObject.size /\ NoObject.phase = "none"
      BY NullTypes DEF NoObject
    <2>4. QED
      BY <2>1, <2>2, <2>3, ObjectStepKeeps
  <1>5. QED
    BY <1>1, <1>2, <1>3, <1>4

-----------------------------------------------------------------------------
(* The theorems. *)

\* Inv is inductive.
LEMMA InvNext == Inv /\ [Next]_vars => Inv'
  <1> SUFFICES ASSUME Inv, [Next]_vars
               PROVE  Inv'
    OBVIOUS
  <1>1. ASSUME NEW c \in Calls, GiveUp(c)
        PROVE  Inv'
    BY <1>1, RefuseKeeps DEF GiveUp
  <1>2. CASE Next
    BY <1>1, <1>2, CreateSteps, PollStep, ExpandSteps, DeleteSteps, AskStep, WatchStep, ObjectSteps
       DEF Next, Step
  <1>3. CASE UNCHANGED vars
    BY <1>3 DEF vars, Inv, TypeOK, NameOK, CallOK
  <1>4. QED
    BY <1>2, <1>3

\* The invariant holds in every reachable state.
THEOREM Invariance == Spec => []Inv
  BY InvInit, InvNext, PTL DEF Spec

\* Objects and calls are always of the right type, and an object has at most the size that it
\* is to have.
THEOREM TypeCorrect == Spec => []TypeOK
  <1>1. Inv => TypeOK
    BY DEF Inv
  <1>2. QED
    BY <1>1, Invariance, PTL

\* validateCapacity is right for every range, extent size and width: what is rounded, what
\* overflows and what is refused.
THEOREM CapacityCorrect == Spec => []CapacityIsClosest
  <1>1. Inv => CapacityIsClosest
    <2> SUFFICES ASSUME Inv, NEW c \in Calls, call[c].pc = "asked"
                 PROVE  ClosestTo(call[c].req)
      BY DEF CapacityIsClosest, ClosestTo
    <2>1. call[c].req \in Request
      BY CallParts DEF Inv, CallOK
    <2>2. QED
      BY <2>1, CapacityValue
  <1>2. QED
    BY <1>1, Invariance, PTL

\* A step of a call leaves the others alone, and ends it with success only by Answer.
LEMMA StepMoves ==
  ASSUME Inv, NEW d \in Calls, Step(d) \/ GiveUp(d)
  PROVE  /\ \A e \in Calls \ {d} : call'[e] = call[e]
         /\ call'[d].pc = "ok" => Answer(d)
  <1>0. call \in [Calls -> Call]
    BY DEF Inv, TypeOK, Call, Pcs
  <1>1. ASSUME NEW p, NEW x, Goto(d, p, x)
        PROVE  (\A e \in Calls \ {d} : call'[e] = call[e]) /\ call'[d].pc = p
    BY <1>0, <1>1 DEF Goto, Call
  <1>2. ASSUME Refuse(d)
        PROVE  (\A e \in Calls \ {d} : call'[e] = call[e]) /\ call'[d].pc = "idle"
    BY <1>0, <1>2 DEF Refuse, Idle
  <1>3. ASSUME Answer(d)
        PROVE  \A e \in Calls \ {d} : call'[e] = call[e]
    BY <1>0, <1>3 DEF Answer
  <1>4. ASSUME NEW x, WaitFrom(d, x)
        PROVE  Goto(d, "wait", NoObject) \/ Answer(d)
    BY <1>4 DEF WaitFrom
  <1>5. \/ Refuse(d) \/ Answer(d) \/ Goto(d, "create", NewObject(call[d].req))
        \/ \E p \in Pcs \ {"ok"} : Goto(d, p, NoObject)
        \/ Goto(d, "update", cache[call[d].req.name])
    BY <1>4 DEF Step, GiveUp, CheckCreate, Create, Compare, Poll, CheckExpand, Expand, RetryExpand,
                CheckDelete, Delete, Confirm, Pcs
  <1>6. QED
    BY <1>1, <1>2, <1>3, <1>5

\* The calls that a step can end with success, and what it has seen.
LEMMA WhoAnswers ==
  ASSUME Inv, Next, NEW c \in Calls, call[c].pc # "ok", call'[c].pc = "ok", NEW n \in Names, n = call[c].req.name
  PROVE  \/ call[c].pc = "wait" /\ Done(call[c].req, cache[n])
         \/ /\ At(c, "create", "compare") /\ cache[n].phase # "none"
            /\ Matches(call[c].req, cache[n]) /\ Done(call[c].req, cache[n])
         \/ At(c, "expand", "asked") /\ Done(call[c].req, cache[n])
         \/ call[c].req.op = "delete" /\ (cache[n].phase = "none" \/ obj[n].phase = "none")
  <1>0. call \in [Calls -> Call]
    BY DEF Inv, TypeOK, Call, Pcs
  <1>1. ASSUME NEW k \in Names, Watch(k) \/ Provide(k) \/ Remove(k) \/ Stage(k) \/ Unstage(k)
        PROVE  FALSE
    BY <1>1 DEF Watch, Provide, Remove, Stage, Unstage
  <1>2. ASSUME NEW d \in Calls, NEW r \in Requests, Ask(d, r)
        PROVE  FALSE
    BY <1>0, <1>2 DEF Ask
  <1>3. PICK d \in Calls : Step(d) \/ GiveUp(d)
    BY <1>1, <1>2 DEF Next
  <1>4. d = c /\ Answer(c)
    BY <1>3, StepMoves
  <1>5. ~Refuse(c)
    BY <1>0 DEF Refuse, Idle
  <1>6. ASSUME NEW p, NEW x, p # "ok", Goto(c, p, x)
        PROVE  FALSE
    BY <1>0, <1>6 DEF Goto, Call
  <1>7. ASSUME NEW x, WaitFrom(c, x)
        PROVE  Done(call[c].req, x)
    BY <1>6, <1>7 DEF WaitFrom
  <1>8. CASE Expand(c)
    BY <1>6, <1>8, ExpandUpdate
  <1>9. CASE CheckCreate(c) \/ Create(c) \/ RetryExpand(c) \/ GiveUp(c)
    BY <1>5, <1>6, <1>9 DEF CheckCreate, Create, RetryExpand, GiveUp
  <1>10. CASE Compare(c)
    BY <1>5, <1>7, <1>10 DEF Compare
  <1>11. CASE CheckExpand(c)
    BY <1>5, <1>6, <1>7, <1>11 DEF CheckExpand
  <1>12. CASE CheckDelete(c) \/ Delete(c) \/ Confirm(c)
    BY <1>5, <1>6, <1>12 DEF CheckDelete, Delete, Confirm, At
  <1>13. CASE Poll(c)
    BY <1>13 DEF Poll
  <1>14. QED
    BY <1>3, <1>4, <1>8, <1>9, <1>10, <1>11, <1>12, <1>13 DEF Step

\* A success of CreateVolume, CreateSnapshot or ControllerExpandVolume is true of the object,
\* though the call only ever saw it in a cache.
THEOREM SuccessIsTrue == Spec => DoneAsAsked
  <1> DEFINE Good(c) ==
        LET r == call[c].req IN
        /\ Answered(c, "create") => CreatedAsAsked(r, obj[r.name])
        /\ Answered(c, "expand") /\ known[r.name] = "yes" => Capacity(r) <= obj[r.name].real
  <1>1. ASSUME Inv, [Next]_vars
        PROVE  [\A c \in Calls : Good(c)]_vars
    <2>1. SUFFICES ASSUME Next, NEW c \in Calls
                   PROVE  Good(c)
      BY <1>1
    <2> DEFINE r == call[c].req
               n == r.name
    <2>2. ASSUME Answered(c, "create")
          PROVE  CreatedAsAsked(r, obj[n])
      <3>0. r.op = "create" /\ call[c].pc # "ok" /\ call'[c].pc = "ok" /\ CallOK(c)
        BY <1>1, <2>2 DEF Answered, Inv
      <3>1. r \in Request /\ n \in Names /\ known[n] \in {"no", "yes"} /\ obj[n] \in Object
        BY <1>1, <3>0, CallParts DEF Inv, TypeOK, CallOK
      <3>2. Done(r, cache[n])
        BY <1>1, <2>1, <3>0, <3>1, WhoAnswers DEF At
      <3>3. cache[n].phase # "none" /\ cache[n].avail
        BY <3>0, <3>2 DEF Done
      <3>4. obj[n].phase = "live" /\ LaterOf(cache[n], obj[n]) /\ obj[n].avail /\ cache[n] \in Object
        BY <1>1, <3>1, <3>3, CacheIsTrue
      <3>5. AsAsked(r, obj[n])
        <4>1. CASE call[c].pc = "wait"
          BY <3>0, <4>1 DEF CallOK
        <4>2. CASE call[c].pc # "wait"
          <5>1. Matches(r, cache[n])
            BY <1>1, <2>1, <3>0, <3>1, <4>2, WhoAnswers DEF At
          <5>2. AsAsked(r, cache[n])
            BY <3>1, <3>3, <3>4, <5>1, MatchesAsAsked
          <5>3. QED
            BY <3>1, <3>4, <5>2, AsAskedLater
        <4>3. QED
          BY <4>1, <4>2
      <3>6. QED
        BY <3>4, <3>5 DEF AsAsked, CreatedAsAsked
    <2>3. ASSUME Answered(c, "expand"), known[n] = "yes"
          PROVE  Capacity(r) <= obj[n].real
      <3>0. r.op = "expand" /\ call[c].pc # "ok" /\ call'[c].pc = "ok"
        BY <2>3 DEF Answered
      <3>1. r \in Request /\ n \in Names
        BY <1>1, <3>0, CallParts DEF Inv
      <3>2. Done(r, cache[n])
        BY <1>1, <2>1, <3>0, <3>1, WhoAnswers DEF At
      <3>3. cache[n].phase # "none" /\ Capacity(r) <= cache[n].real
        BY <3>0, <3>2 DEF Done
      <3>4. LaterOf(cache[n], obj[n]) /\ cache[n] \in Object /\ obj[n] \in Object
        BY <1>1, <2>3, <3>1, <3>3, CacheIsTrue
      <3>5. QED
        BY <3>1, <3>3, <3>4, CapacityType, NumbersAssumption DEF LaterOf, Object, NumbersAssumption
    <2>4. QED
      BY <2>2, <2>3
  <1>2. QED
    BY <1>1, Invariance, PTL DEF Spec, DoneAsAsked

\* A success of DeleteVolume or DeleteSnapshot is true: an object that the cache has not seen
\* yet is never taken for one that is gone.
THEOREM DeletionIsTrue == Spec => DeletedIsGone
  <1> DEFINE Gone(c) == Answered(c, "delete") => obj[call[c].req.name].phase = "none"
  <1>1. ASSUME Inv, [Next]_vars
        PROVE  [\A c \in Calls : Gone(c)]_vars
    <2>1. SUFFICES ASSUME Next, NEW c \in Calls, Answered(c, "delete")
                   PROVE  obj[call[c].req.name].phase = "none"
      BY <1>1
    <2> DEFINE n == call[c].req.name
    <2>2. call[c].req.op = "delete" /\ call[c].pc # "ok" /\ call'[c].pc = "ok" /\ CallOK(c)
      BY <1>1, <2>1 DEF Answered, Inv
    <2>3. n \in Names /\ known[n] \in {"doomed", "gone"} /\ call[c].pc \in {"asked", "delete", "confirm"}
      BY <1>1, <2>2, CallParts DEF Inv, CallOK
    <2>4. cache[n].phase = "none" \/ obj[n].phase = "none"
      BY <1>1, <2>1, <2>2, <2>3, WhoAnswers DEF At
    <2>5. QED
      BY <1>1, <2>3, <2>4 DEF Inv, NameOK
  <1>2. QED
    BY <1>1, Invariance, PTL DEF Spec, DeletedIsGone

\* Whatever expansions run at a time, sizes only grow, and no Linear volume that is in use does.
THEOREM OrderOfGrowth == Spec => GrowsInOrder
  <1> DEFINE Grows(n) ==
        obj[n].phase # "none" /\ obj'[n].phase # "none" /\ obj'[n].size # obj[n].size =>
            obj'[n].size > obj[n].size /\ ~(obj[n].mode = "Linear" /\ obj[n].attached)
  <1>1. ASSUME Inv, [Next]_vars
        PROVE  [\A n \in Vols : Grows(n)]_vars
    <2>1. SUFFICES ASSUME Next, NEW n \in Vols, obj[n].phase # "none", obj'[n].phase # "none",
                          obj'[n].size # obj[n].size
                   PROVE  obj'[n].size > obj[n].size /\ ~(obj[n].mode = "Linear" /\ obj[n].attached)
      BY <1>1
    <2>0. TypeOK /\ n \in Names /\ obj \in [Names -> Object] /\ obj[n] \in Object
      BY <1>1 DEF Inv, TypeOK, Names
    <2>2. ASSUME NEW k \in Names, Watch(k) \/ Provide(k) \/ Stage(k) \/ Unstage(k)
          PROVE  obj'[n].size = obj[n].size
      BY <2>0, <2>2 DEF Watch, Provide, Stage, Unstage, Object
    <2>3. ASSUME NEW k \in Names, Remove(k)
          PROVE  obj'[n] = obj[n]
      BY <2>0, <2>1, <2>3 DEF Remove, NoObject
    <2>4. ASSUME NEW c \in Calls, NEW r \in Requests, Ask(c, r)
          PROVE  obj' = obj
      BY <2>4 DEF Ask
    <2>5. ASSUME NEW c \in Calls,
                 \/ CheckCreate(c) \/ Compare(c) \/ Poll(c) \/ CheckExpand(c) \/ RetryExpand(c)
                 \/ CheckDelete(c) \/ Confirm(c) \/ GiveUp(c)
          PROVE  obj' = obj
      BY <2>5 DEF CheckCreate, Compare, Poll, CheckExpand, RetryExpand, CheckDelete, Confirm, GiveUp
    <2>6. ASSUME NEW c \in Calls, Create(c)
          PROVE  obj'[n] = obj[n]
      BY <2>0, <2>1, <2>6 DEF Create
    <2>7. ASSUME NEW c \in Calls, Delete(c)
          PROVE  obj'[n].size = obj[n].size
      BY <2>0, <2>7 DEF Delete, Object
    <2>8. ASSUME NEW c \in Calls, Expand(c)
          PROVE  obj'[n].size > obj[n].size /\ ~(obj[n].mode = "Linear" /\ obj[n].attached)
      <3>1. PICK k \in Names : k = call[c].req.name
        BY <2>0, <2>8, CallParts DEF Expand, At
      <3> DEFINE y == [obj[k] EXCEPT !.size = Capacity(call[c].req)]
      <3>2. /\ obj' = [obj EXCEPT ![k] = y] /\ y \in Object /\ obj[k].size < y.size
            /\ ~(obj[k].mode = "Linear" /\ obj[k].attached)
        BY <1>1, <2>8, <3>1, ExpandUpdate
      <3> HIDE DEF y
      <3>3. k = n /\ obj'[n] = y
        BY <2>0, <2>1, <3>2
      <3>4. QED
        BY <2>0, <3>2, <3>3, NumbersAssumption DEF Object, NumbersAssumption
    <2>9. QED
      BY <2>1, <2>2, <2>3, <2>4, <2>5, <2>6, <2>7, <2>8 DEF Next, Step
  <1>2. QED
    BY <1>1, Invariance, PTL DEF Spec, GrowsInOrder
=============================================================================
