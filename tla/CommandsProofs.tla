--------------------------- MODULE CommandsProofs ---------------------------
(***************************************************************************)
(* Proofs of what clinfo lists and what diagnostics selects and builds for *)
(* (theorems UsesWhatIsListed, ListedIsSelected, BuildsForItsDevice and    *)
(* TypeCorrect), whatever the machine has, however it changes and whatever *)
(* the user asks.  The invariant is Chosen.                                *)
(*                                                                         *)
(* FlattenSeq and Min are defined by a recursive function and by CHOOSE;   *)
(* the first lemmas say what they give.                                    *)
(***************************************************************************)
EXTENDS Commands, SequenceTheorems, FiniteSetTheorems, WellFoundedInduction, TLAPS

Flattens(seqs, f, n) ==
    f = [i \in 1 .. n |-> IF i = 1 THEN seqs[i] ELSE f[i - 1] \o seqs[i]]

\* A set of numbers that is not empty has a least one.
LEMMA LeastOf ==
    ASSUME NEW S \in SUBSET Nat, S # {}
    PROVE  \E n \in S : \A m \in S : n <= m
<1>1. PICK n \in S : \A m \in S : ~(<<m, n>> \in OpToRel(<, Nat))
  BY NatLessThanWellFounded, WFMin
<1>2. \A m \in S : n <= m
  <2> SUFFICES ASSUME NEW m \in S, m < n PROVE FALSE
    OBVIOUS
  <2>1. <<m, n>> \in OpToRel(<, Nat)
    BY DEF OpToRel
  <2>2. QED
    BY <1>1, <2>1
<1>3. QED
  BY <1>2

\* There is a function that concatenates the first n sequences for every n.
LEMMA FlattenExists ==
    ASSUME NEW seqs, NEW n \in Nat \ {0}
    PROVE  \E f : Flattens(seqs, f, n)
<1> DEFINE Bad == {i \in Nat \ {0} : ~\E f : Flattens(seqs, f, i)}
<1>1. Bad = {}
  <2> SUFFICES ASSUME Bad # {} PROVE FALSE
    OBVIOUS
  <2>1. PICK k \in Bad : \A j \in Bad : k <= j
    <3>1. Bad \in SUBSET Nat
      OBVIOUS
    <3> HIDE DEF Bad
    <3>2. QED
      BY <3>1, LeastOf
  <2>10. k \in Nat \ {0}
    OBVIOUS
  <2>2. k # 1
    <3> DEFINE f == [i \in 1 .. 1 |-> seqs[i]]
    <3>1. Flattens(seqs, f, 1)
      BY DEF Flattens
    <3>2. QED
      BY <3>1
  <2>3. PICK p \in Nat \ {0} : p = k - 1
    BY <2>2
  <2>4. PICK f : Flattens(seqs, f, p)
    <3>1. p \notin Bad
      <4> HIDE DEF Bad
      <4>1. QED
        BY <2>1, <2>3, <2>10
    <3>2. QED
      BY <3>1
  <2> DEFINE g == [i \in 1 .. k |-> IF i = k THEN f[p] \o seqs[k] ELSE f[i]]
  <2>5. \A i \in 1 .. p : f[i] = IF i = 1 THEN seqs[i] ELSE f[i - 1] \o seqs[i]
    BY <2>4 DEF Flattens
  <2>6. \A i \in 1 .. k : i = k \/ i \in 1 .. p
    BY <2>3
  <2>7. \A i \in 1 .. k : g[i] = IF i = 1 THEN seqs[i] ELSE g[i - 1] \o seqs[i]
    BY <2>2, <2>3, <2>5, <2>6
  <2>8. Flattens(seqs, g, k)
    <3>1. g = [i \in 1 .. k |-> g[i]]
      OBVIOUS
    <3> HIDE DEF g
    <3>2. QED
      BY <2>7, <3>1 DEF Flattens
  <2>9. QED
    BY <2>8
<1>2. QED
  BY <1>1

\* FlattenSeq gives the last value of that function.
LEMMA FlattenIsLast ==
    ASSUME NEW seqs, Len(seqs) \in Nat \ {0}
    PROVE  \E f : Flattens(seqs, f, Len(seqs)) /\ FlattenSeq(seqs) = f[Len(seqs)]
<1> DEFINE N == Len(seqs)
           F == CHOOSE f : f = [i \in 1 .. N |-> IF i = 1 THEN seqs[i] ELSE f[i - 1] \o seqs[i]]
<1>1. F = [i \in 1 .. N |-> IF i = 1 THEN seqs[i] ELSE F[i - 1] \o seqs[i]]
  BY FlattenExists, Zenon DEF Flattens
<1>2. FlattenSeq(seqs) = F[N]
  BY DEF FlattenSeq
<1>3. QED
  BY <1>1, <1>2 DEF Flattens

\* What a flattened sequence is made of.
LEMMA ConcatElements ==
    ASSUME NEW S, NEW s \in Seq(S), NEW t \in Seq(S)
    PROVE  s \o t \in Seq(S) /\ ToSet(s \o t) = ToSet(s) \cup ToSet(t)
<1> DEFINE w == s \o t
<1>1. /\ w \in Seq(S) /\ Len(w) = Len(s) + Len(t) /\ Len(s) \in Nat /\ Len(t) \in Nat
      /\ \A i \in 1 .. Len(s) + Len(t) : w[i] = IF i <= Len(s) THEN s[i] ELSE t[i - Len(s)]
  BY ConcatProperties
<1> HIDE DEF w
<1>2. DOMAIN w = 1 .. Len(s) + Len(t) /\ DOMAIN s = 1 .. Len(s) /\ DOMAIN t = 1 .. Len(t)
  BY <1>1
<1>3. ASSUME NEW e \in ToSet(w) PROVE e \in ToSet(s) \cup ToSet(t)
  <2>1. PICK i \in 1 .. Len(s) + Len(t) : w[i] = e
    BY <1>2 DEF ToSet
  <2>2. CASE i <= Len(s)
    BY <1>1, <1>2, <2>1, <2>2 DEF ToSet
  <2>3. CASE ~(i <= Len(s))
    <3>1. i - Len(s) \in 1 .. Len(t)
      BY <1>1, <2>3
    <3>2. QED
      BY <1>1, <1>2, <2>1, <2>3, <3>1 DEF ToSet
  <2>4. QED
    BY <2>2, <2>3
<1>4. ASSUME NEW e \in ToSet(s) PROVE e \in ToSet(w)
  <2>1. PICK i \in 1 .. Len(s) : s[i] = e
    BY <1>2 DEF ToSet
  <2>2. i \in 1 .. Len(s) + Len(t) /\ i <= Len(s)
    BY <1>1
  <2>3. QED
    BY <1>1, <1>2, <2>1, <2>2 DEF ToSet
<1>5. ASSUME NEW e \in ToSet(t) PROVE e \in ToSet(w)
  <2>1. PICK i \in 1 .. Len(t) : t[i] = e
    BY <1>2 DEF ToSet
  <2>2. i + Len(s) \in 1 .. Len(s) + Len(t) /\ ~(i + Len(s) <= Len(s)) /\ (i + Len(s)) - Len(s) = i
    BY <1>1
  <2>3. QED
    BY <1>1, <1>2, <2>1, <2>2 DEF ToSet
<1>6. QED
  BY <1>1, <1>3, <1>4, <1>5 DEF w

\* What is in a flattened sequence is what is in one of its parts.
LEMMA FlattenElements ==
    ASSUME NEW S, NEW seqs \in Seq(Seq(S))
    PROVE  /\ FlattenSeq(seqs) \in Seq(S)
           /\ \A e : (e \in ToSet(FlattenSeq(seqs)) <=> \E i \in DOMAIN seqs : e \in ToSet(seqs[i]))
<1> DEFINE N == Len(seqs)
<1>1. N \in Nat /\ DOMAIN seqs = 1 .. N /\ \A i \in 1 .. N : seqs[i] \in Seq(S)
  OBVIOUS
<1>2. CASE N = 0
  <2>1. seqs = <<>>
    BY <1>2, EmptySeq
  <2>2. FlattenSeq(seqs) = seqs
    BY <1>2 DEF FlattenSeq
  <2>3. DOMAIN seqs = {}
    BY <1>1, <1>2
  <2>4. ToSet(seqs) = {}
    BY <2>3 DEF ToSet
  <2>5. seqs \in Seq(S)
    BY <2>1
  <2>6. QED
    BY <2>2, <2>3, <2>4, <2>5
<1>3. CASE N # 0
  <2>1. PICK f : Flattens(seqs, f, N) /\ FlattenSeq(seqs) = f[N]
    BY <1>1, <1>3, FlattenIsLast
  <2> HIDE DEF N
  <2>2. \A i \in 1 .. N : f[i] = IF i = 1 THEN seqs[i] ELSE f[i - 1] \o seqs[i]
    BY <2>1 DEF Flattens
  <2> DEFINE Good(i) == /\ f[i] \in Seq(S)
                        /\ \A e : (e \in ToSet(f[i]) <=> \E j \in 1 .. i : e \in ToSet(seqs[j]))
             Bad == {i \in 1 .. N : ~Good(i)}
  <2>3. Bad = {}
    <3> SUFFICES ASSUME Bad # {} PROVE FALSE
      OBVIOUS
    <3>1. Bad \in SUBSET Nat
      BY <1>1
    <3>2. PICK k \in Bad : \A j \in Bad : k <= j
      <4> HIDE DEF Bad
      <4>1. QED
        BY <3>1, LeastOf
    <3>3. k \in 1 .. N /\ ~Good(k)
      OBVIOUS
    <3>4. CASE k = 1
      <4>1. f[1] = seqs[1] /\ \A j \in 1 .. 1 : j = 1
        BY <2>2, <3>3, <3>4
      <4>2. f[1] \in Seq(S)
        BY <1>1, <3>3, <3>4, <4>1
      <4>3. \A e : (e \in ToSet(f[1]) <=> \E j \in 1 .. 1 : e \in ToSet(seqs[j]))
        BY <4>1
      <4>4. QED
        BY <3>3, <3>4, <4>2, <4>3
    <3>5. CASE k # 1
      <4>1. PICK p \in 1 .. N : p = k - 1 /\ p < k
        <5>1. k \in 1 .. N /\ N \in Nat
          BY <1>1, <3>3
        <5> HIDE DEF Bad
        <5>2. QED
          BY <3>5, <5>1
      <4>2. Good(p)
        <5>1. p \notin Bad
          <6> HIDE DEF Bad
          <6>1. QED
            BY <1>1, <3>2, <3>3, <4>1
        <5>2. QED
          BY <5>1
      <4>3. f[k] = f[p] \o seqs[k]
        BY <2>2, <3>3, <3>5, <4>1
      <4>4. f[k] \in Seq(S) /\ ToSet(f[k]) = ToSet(f[p]) \cup ToSet(seqs[k])
        BY <1>1, <3>3, <4>2, <4>3, ConcatElements
      <4>5. \A j : (j \in 1 .. k <=> j \in 1 .. p \/ j = k)
        BY <1>1, <3>3, <4>1
      <4>6. \A e : (e \in ToSet(f[k]) <=> \E j \in 1 .. k : e \in ToSet(seqs[j]))
        BY <4>2, <4>4, <4>5
      <4>7. QED
        BY <3>3, <4>4, <4>6
    <3>6. QED
      BY <3>4, <3>5
  <2>4. Good(N)
    <3>1. N \in 1 .. N
      BY <1>1, <1>3
    <3>2. QED
      BY <2>3, <3>1
  <2>5. QED
    BY <1>1, <2>1, <2>4
<1>4. QED
  BY <1>2, <1>3

\* Of finitely many numbers one is the greatest.
LEMMA GreatestOf ==
    ASSUME NEW n \in Nat \ {0}, NEW f, \A i \in 1 .. n : f[i] \in Nat
    PROVE  \E k \in 1 .. n : \A j \in 1 .. n : f[j] <= f[k]
<1> DEFINE Top(i, k) == k \in 1 .. i /\ \A j \in 1 .. i : f[j] <= f[k]
           Bad == {i \in 1 .. n : ~\E k : Top(i, k)}
<1>1. Bad = {}
  <2> SUFFICES ASSUME Bad # {} PROVE FALSE
    OBVIOUS
  <2>1. PICK i \in Bad : \A j \in Bad : i <= j
    <3>1. Bad \in SUBSET Nat
      OBVIOUS
    <3> HIDE DEF Bad
    <3>2. QED
      BY <3>1, LeastOf
  <2>2. i \in 1 .. n /\ ~\E k : Top(i, k)
    OBVIOUS
  <2>3. i # 1
    <3>1. Top(1, 1)
      OBVIOUS
    <3>2. QED
      BY <2>2, <3>1
  <2>4. PICK p \in 1 .. n : p = i - 1 /\ p < i
    BY <2>2, <2>3
  <2>5. PICK k : Top(p, k)
    <3>1. p \notin Bad
      <4> HIDE DEF Bad
      <4>1. QED
        BY <2>1, <2>2, <2>4
    <3>2. QED
      BY <3>1
  <2>6. \A j \in 1 .. i : j \in 1 .. p \/ j = i
    BY <2>2, <2>4
  <2>7. k \in 1 .. i /\ i \in 1 .. i /\ f[k] \in Nat /\ f[i] \in Nat
    BY <2>2, <2>4, <2>5
  <2>8. CASE f[i] <= f[k]
    <3>1. Top(i, k)
      BY <2>5, <2>6, <2>7, <2>8
    <3>2. QED
      BY <2>2, <3>1
  <2>9. CASE f[k] <= f[i]
    <3>1. ASSUME NEW j \in 1 .. p PROVE f[j] <= f[i]
      <4>1. f[j] <= f[k] /\ f[j] \in Nat
        BY <2>5
      <4>2. QED
        BY <2>7, <2>9, <4>1
    <3>2. f[i] <= f[i]
      BY <2>7
    <3>3. Top(i, i)
      BY <2>6, <2>7, <3>1, <3>2
    <3>4. QED
      BY <2>2, <3>3
  <2>10. QED
    BY <2>7, <2>8, <2>9
<1>2. n \in 1 .. n /\ n \notin Bad
  BY <1>1
<1>3. QED
  BY <1>2

-----------------------------------------------------------------------------
(* Devices. *)

\* Min gives the least of a set of numbers.
LEMMA LeastIsMin ==
    ASSUME NEW S \in SUBSET Nat, S # {}
    PROVE  Min(S) \in S /\ \A n \in S : Min(S) <= n
  BY LeastOf, Zenon DEF Min

\* A device that GetDevices appends.
Selectable == {OclsDevice(d) : d \in {d \in DeviceAnswers : GetCLStandard(d) # Throws}}

\* The identifier and the power of a device that is appended are numbers.
LEMMA SelectableFields ==
    ASSUME NEW d \in Selectable
    PROVE  d.id \in Nat /\ d.power \in Nat /\ d.std # Throws
<1>1. PICK a \in DeviceAnswers : GetCLStandard(a) # Throws /\ d = OclsDevice(a)
  BY DEF Selectable
<1>2. a.id \in Nat /\ a.power \in Nat
  BY DEF DeviceAnswers
<1>3. CalculateDeviceID(a) \in Nat /\ GetDevicePowerIndex(a) \in Nat
  BY <1>2 DEF CalculateDeviceID, GetDevicePowerIndex
<1>4. QED
  BY <1>1, <1>3 DEF OclsDevice

\* Every device in front of the first that throws is appended, and nothing that is
\* not one of the platform's.
LEMMA DevicesOfPlatform ==
    ASSUME NEW p \in PlatformAnswers
    PROVE  /\ PlatformDevices(p) \in Seq(Selectable)
           /\ \A j \in DOMAIN p.devices :
                \/ "devices" \in p.unreadable
                \/ \E k \in 1 .. j : GetCLStandard(p.devices[k]) = Throws
                \/ OclsDevice(p.devices[j]) \in ToSet(PlatformDevices(p))
           /\ \A d \in ToSet(PlatformDevices(p)) :
                "devices" \notin p.unreadable /\ \E j \in DOMAIN p.devices : d = OclsDevice(p.devices[j])
<1> DEFINE N == Len(p.devices)
           throwing == {i \in DOMAIN p.devices : GetCLStandard(p.devices[i]) = Throws}
           reached == Min(throwing \cup {N + 1}) - 1
           appended == [i \in 1 .. reached |-> OclsDevice(p.devices[i])]
<1>1. N \in Nat /\ DOMAIN p.devices = 1 .. N /\ \A i \in 1 .. N : p.devices[i] \in DeviceAnswers
  BY DEF PlatformAnswers
<1> HIDE DEF N
<1>2. PlatformDevices(p) = IF "devices" \in p.unreadable THEN <<>> ELSE appended
  BY DEF PlatformDevices, N
<1>3. /\ reached \in Int /\ reached + 1 \in throwing \cup {N + 1}
      /\ \A n \in throwing \cup {N + 1} : reached + 1 <= n
  <2> DEFINE T == throwing \cup {N + 1}
  <2>1. T \in SUBSET Nat /\ T # {}
    BY <1>1
  <2> HIDE DEF T
  <2>2. Min(T) \in T /\ Min(T) \in Nat /\ \A n \in T : Min(T) <= n
    BY <2>1, LeastIsMin
  <2>3. Min(T) - 1 \in Int /\ (Min(T) - 1) + 1 = Min(T)
    BY <2>2
  <2>4. QED
    BY <2>2, <2>3 DEF T
<1>4. reached \in 0 .. N
  <2>1. N + 1 \in throwing \cup {N + 1}
    OBVIOUS
  <2>2. throwing \cup {N + 1} \subseteq 1 .. N + 1
    BY <1>1
  <2>3. reached + 1 \in 1 .. N + 1
    BY <1>3, <2>2
  <2> HIDE DEF throwing, reached
  <2>4. QED
    BY <1>1, <1>3, <2>3
<1> HIDE DEF reached
<1>5. \A i \in 1 .. reached : i \in 1 .. N /\ GetCLStandard(p.devices[i]) # Throws
  <2> SUFFICES ASSUME NEW i \in 1 .. reached PROVE i \in 1 .. N /\ i \notin throwing
    BY <1>1
  <2>1. i \in 1 .. N /\ ~(reached + 1 <= i)
    BY <1>1, <1>4
  <2>2. QED
    BY <1>3, <2>1
<1>6. \A i \in 1 .. reached : OclsDevice(p.devices[i]) \in Selectable
  BY <1>1, <1>5 DEF Selectable
<1>7. PlatformDevices(p) \in Seq(Selectable)
  BY <1>2, <1>4, <1>6
<1>8. ASSUME NEW j \in DOMAIN p.devices, "devices" \notin p.unreadable,
             \A k \in 1 .. j : GetCLStandard(p.devices[k]) # Throws
      PROVE  OclsDevice(p.devices[j]) \in ToSet(PlatformDevices(p))
  <2>1. j <= reached
    <3>1. CASE reached + 1 = N + 1
      BY <1>1, <1>4, <1>8, <3>1
    <3>2. CASE reached + 1 \in throwing
      <4>1. reached + 1 \notin 1 .. j
        BY <1>8, <3>2
      <4>2. QED
        BY <1>1, <1>4, <1>8, <4>1
    <3>3. QED
      BY <1>3, <3>1, <3>2
  <2>2. j \in 1 .. reached /\ DOMAIN appended = 1 .. reached
    BY <1>1, <1>4, <1>8, <2>1
  <2>3. QED
    BY <1>2, <1>8, <2>2 DEF ToSet
<1>9. ASSUME NEW d \in ToSet(PlatformDevices(p))
      PROVE  "devices" \notin p.unreadable /\ \E j \in DOMAIN p.devices : d = OclsDevice(p.devices[j])
  <2>1. "devices" \notin p.unreadable
    <3>1. ToSet(<<>>) = {}
      BY DEF ToSet
    <3>2. QED
      BY <1>2, <1>9, <3>1
  <2>2. PICK j \in 1 .. reached : d = OclsDevice(p.devices[j])
    BY <1>2, <1>9, <2>1 DEF ToSet
  <2>3. j \in DOMAIN p.devices
    BY <1>1, <1>5
  <2>4. QED
    BY <2>1, <2>2, <2>3
<1>10. QED
  BY <1>7, <1>8, <1>9

\* GetDevices gives the devices of all platforms, and none that is not one.
LEMMA DevicesOfMachine ==
    ASSUME NEW m \in Machines
    PROVE  /\ GetDevices(m) \in Seq(Selectable) /\ NoDevice \notin ToSet(GetDevices(m))
           /\ \A d : (d \in ToSet(GetDevices(m))
                       <=> \E i \in DOMAIN m : d \in ToSet(PlatformDevices(m[i])))
<1> DEFINE seqs == [i \in DOMAIN m |-> PlatformDevices(m[i])]
<1>1. m \in Seq(PlatformAnswers) /\ NoDevice \notin ToSet(GetDevices(m))
  BY MachinesAssumption
<1>2. \A i \in DOMAIN m : m[i] \in PlatformAnswers
  BY <1>1
<1>3. \A i \in DOMAIN m : PlatformDevices(m[i]) \in Seq(Selectable)
  BY <1>2, DevicesOfPlatform
<1>4. seqs \in Seq(Seq(Selectable)) /\ DOMAIN seqs = DOMAIN m
  BY <1>1, <1>3
<1>5. GetDevices(m) = FlattenSeq(seqs)
  BY DEF GetDevices
<1> HIDE DEF seqs
<1>6. /\ GetDevices(m) \in Seq(Selectable)
      /\ \A e : (e \in ToSet(GetDevices(m)) <=> \E i \in DOMAIN m : e \in ToSet(seqs[i]))
  BY <1>4, <1>5, FlattenElements
<1>7. QED
  BY <1>1, <1>6 DEF seqs

\* SetOpenCLDevice finds the device asked for if there is one, and never makes one up.
LEMMA SelectionFinds ==
    ASSUME NEW m \in Machines, NEW identifier \in Nat, NEW before
    PROVE  LET selected == Settings!SelectOpenCLDevice(GetDevices(m), identifier, before)
           IN  /\ selected \in ToSet(GetDevices(m)) \cup {before}
               /\ identifier > 0 /\ (\E d \in ToSet(GetDevices(m)) : d.id = identifier)
                    => selected \in ToSet(GetDevices(m)) /\ selected.id = identifier
<1> DEFINE ds == GetDevices(m)
           selected == Settings!SelectOpenCLDevice(ds, identifier, before)
           matching == {i \in DOMAIN ds : identifier > 0 /\ ds[i].id = identifier}
           strongest == Settings!SelectOpenCLDeviceByPowerIndex(ds)
<1>1. ds \in Seq(Selectable)
  BY DevicesOfMachine
<1> HIDE DEF ds
<1>2. Len(ds) \in Nat /\ DOMAIN ds = 1 .. Len(ds) /\ \A i \in 1 .. Len(ds) : ds[i].power \in Nat
  BY <1>1, SelectableFields
<1>3. \A I \in SUBSET (1 .. Len(ds)) : I # {} => Settings!First(I) \in I
  <2> SUFFICES ASSUME NEW I \in SUBSET (1 .. Len(ds)), I # {} PROVE Settings!First(I) \in I
    OBVIOUS
  <2>1. I \in SUBSET Nat
    BY <1>2
  <2>2. \E i \in I : \A j \in I : i <= j
    BY <2>1, LeastOf
  <2>3. QED
    BY <2>2, Zenon DEF Settings!First
<1>4. \A i \in 1 .. Len(ds) : ds[i] \in ToSet(ds)
  BY <1>2 DEF ToSet
<1>5. ds # <<>> => strongest \in ToSet(ds)
  <2> SUFFICES ASSUME ds # <<>> PROVE strongest \in ToSet(ds)
    OBVIOUS
  <2> DEFINE top == {i \in DOMAIN ds : \A j \in DOMAIN ds : ds[j].power <= ds[i].power}
  <2>1. Len(ds) \in Nat \ {0}
    BY <1>1, <1>2, EmptySeq
  <2> DEFINE f == [i \in 1 .. Len(ds) |-> ds[i].power]
  <2>2. \A i \in 1 .. Len(ds) : f[i] \in Nat /\ f[i] = ds[i].power
    BY <1>2
  <2> HIDE DEF f
  <2>3. PICK k \in 1 .. Len(ds) : \A j \in 1 .. Len(ds) : f[j] <= f[k]
    BY <2>1, <2>2, GreatestOf
  <2>4. k \in top
    BY <1>2, <2>2, <2>3
  <2>5. Settings!First(top) \in 1 .. Len(ds)
    BY <1>2, <1>3, <2>4
  <2>6. QED
    BY <1>4, <2>5 DEF Settings!SelectOpenCLDeviceByPowerIndex
<1>6. ds # <<>> /\ matching # {} => selected \in ToSet(ds) /\ selected.id = identifier
  <2> SUFFICES ASSUME ds # <<>>, matching # {} PROVE selected \in ToSet(ds) /\ selected.id = identifier
    OBVIOUS
  <2>1. selected = ds[Settings!First(matching)]
    BY DEF Settings!SelectOpenCLDevice
  <2>2. Settings!First(matching) \in matching
    BY <1>2, <1>3
  <2>3. QED
    BY <1>2, <1>4, <2>1, <2>2
<1>7. ds # <<>> /\ matching = {} => selected \in {strongest, before}
  BY DEF Settings!SelectOpenCLDevice
<1>8. ds = <<>> => selected = before
  BY DEF Settings!SelectOpenCLDevice
<1>9. (\E d \in ToSet(ds) : d.id = identifier) /\ identifier > 0 => ds # <<>> /\ matching # {}
  <2> SUFFICES ASSUME NEW d \in ToSet(ds), d.id = identifier, identifier > 0 PROVE ds # <<>> /\ matching # {}
    OBVIOUS
  <2>1. PICK i \in DOMAIN ds : ds[i] = d
    BY DEF ToSet
  <2>2. i \in matching
    BY <2>1
  <2>3. ds # <<>>
    BY <1>2, <2>1
  <2>4. QED
    BY <2>2, <2>3
<1> HIDE DEF selected, strongest, matching
<1>10. QED
  BY <1>5, <1>6, <1>7, <1>8, <1>9 DEF ds, selected

-----------------------------------------------------------------------------
(* clinfo and diagnostics. *)

\* What a diagnostics command has chosen so far.  While the machine is as it was when
\* clinfo listed it, the device is one that it has, and the device given is the one
\* chosen, if it is to be had at all.
Asked(id) == \E d \in ToSet(GetDevices(machine)) : d.id = id
Chosen ==
    /\ machine \in Machines /\ device \in Selectable \cup {NoDevice}
    /\ pc \in {"device", "options", "build"} /\ current =>
         device \in ToSet(GetDevices(machine)) \cup {NoDevice}
    /\ current => listing = Json(machine)
    /\ pc \in {"device", "options", "build"} => request \in Requests /\ request.command = "diagnostics"
    /\ pc = "device" \/ (pc = "options" /\ request.deviceID = 0) =>
         buildOptions = Settings!WithStandard(NoOptions, device)
    /\ pc \in {"options", "build"} /\ current /\ request.deviceID > 0 /\ Asked(request.deviceID) =>
         device # NoDevice /\ device.id = request.deviceID
    /\ pc = "build" => maxNumberOfProblems = request.limit

\* At first nothing is chosen.
LEMMA ChosenInit == Init => Chosen
  BY DEF Init, Chosen

\* No step of a command, and no change of the machine, makes Chosen false.
LEMMA ChosenStep == Chosen /\ [Next]_vars => Chosen'
<1> SUFFICES ASSUME Chosen, [Next]_vars PROVE Chosen'
  OBVIOUS
<1> USE DEF machineVars, diagnosticsVars
<1>1. GetDevices(machine) \in Seq(Selectable) /\ NoDevice \notin ToSet(GetDevices(machine))
  BY DevicesOfMachine DEF Chosen
<1>2. ToSet(GetDevices(machine)) \subseteq Selectable
  BY <1>1 DEF ToSet
<1>3. \A id \in Nat, before \in Selectable \cup {NoDevice} :
        /\ Settings!SelectOpenCLDevice(GetDevices(machine), id, before) \in Selectable \cup {NoDevice}
        /\ Settings!SelectOpenCLDevice(GetDevices(machine), id, before)
             \in ToSet(GetDevices(machine)) \cup {before}
  BY <1>2, SelectionFinds DEF Chosen
<1>4. CASE UNCHANGED vars
  BY <1>4 DEF vars, Chosen, Asked
<1>5. ASSUME NEW r \in Requests, CLInfo(r) PROVE Chosen'
  <2>1. pc' = "done" /\ UNCHANGED <<machine, device>> /\ (current' => current \/ listing' = Json(machine))
        /\ (current => listing' = listing \/ listing' = Json(machine))
    BY <1>5 DEF CLInfo, Starts, Stops, Prints
  <2>2. current' => listing' = Json(machine)
    BY <1>5 DEF CLInfo, Starts, Stops, Prints, Chosen
  <2>3. QED
    BY <2>1, <2>2 DEF Chosen
<1>6. ASSUME NEW r \in Requests, StartDiagnostics(r) PROVE Chosen'
  <2>1. /\ UNCHANGED <<machine, listing, current>> /\ request' = r /\ r.command = "diagnostics"
        /\ \/ pc' = "done" /\ UNCHANGED device
           \/ /\ pc' = "device" /\ device' = Settings!SelectOpenCLDevice(GetDevices(machine), 0, NoDevice)
              /\ buildOptions' = Settings!WithStandard(NoOptions, device')
    BY <1>6 DEF StartDiagnostics, Starts, Stops
  <2>2. /\ device' \in Selectable \cup {NoDevice}
        /\ pc' = "device" => device' \in ToSet(GetDevices(machine)) \cup {NoDevice}
    BY <1>3, <2>1 DEF Chosen
  <2>3. pc' = "device" => buildOptions' = Settings!WithStandard(NoOptions, device)'
    BY <2>1 DEF Settings!WithStandard, Settings!StandardOf
  <2>4. QED
    BY <1>6, <2>1, <2>2, <2>3 DEF Chosen
<1>7. CASE ChooseDevice
  <2>1. /\ pc = "device" /\ pc' = "options" /\ UNCHANGED <<machine, listing, current, request, buildOptions>>
        /\ device' = IF request.deviceID > 0
                     THEN Settings!SelectOpenCLDevice(GetDevices(machine), request.deviceID, device)
                     ELSE device
    BY <1>7 DEF ChooseDevice, Settings!SetOpenCLDevice
  <2>2. request \in Requests /\ request.command = "diagnostics" /\ request.deviceID \in Nat
    BY <2>1, RequestsAssumption DEF Chosen
  <2>3. /\ device' \in Selectable \cup {NoDevice}
        /\ current => device' \in ToSet(GetDevices(machine)) \cup {NoDevice}
    BY <1>3, <2>1, <2>2 DEF Chosen
  <2>4. request.deviceID > 0 /\ Asked(request.deviceID) =>
          device' \in ToSet(GetDevices(machine)) /\ device'.id = request.deviceID
    BY <2>1, <2>2, SelectionFinds DEF Asked, Chosen
  <2>5. Asked(request.deviceID)' <=> Asked(request.deviceID)
    BY <2>1 DEF Asked
  <2>6. request.deviceID = 0 => buildOptions' = Settings!WithStandard(NoOptions, device)'
    BY <2>1 DEF Chosen, Settings!WithStandard, Settings!StandardOf
  <2>7. QED
    BY <1>1, <2>1, <2>2, <2>3, <2>4, <2>5, <2>6 DEF Chosen
<1>8. CASE ChooseOptions
  BY <1>8 DEF ChooseOptions, Chosen, Asked
<1>9. CASE Build
  <2>1. pc' = "done" /\ UNCHANGED <<machine, listing, current, device>>
    BY <1>9 DEF Build, Stops, Prints
  <2>2. QED
    BY <2>1 DEF Chosen
<1>10. ASSUME NEW r \in Requests, CompletionCommand(r) \/ Definition(r) \/ Declaration(r) \/ TypeDefinition(r)
       PROVE  Chosen'
  <2>1. pc' = "done" /\ UNCHANGED <<machine, listing, current, device>>
    BY <1>10 DEF CompletionCommand, Definition, Declaration, TypeDefinition, Starts, Queries, Stops, Prints
  <2>2. QED
    BY <2>1 DEF Chosen
<1>11. CASE MachineChanges
  BY <1>11 DEF MachineChanges, Chosen, Settings!WithStandard, Settings!StandardOf
<1>12. CASE Again
  BY <1>12 DEF Again, Chosen
<1>13. QED
  BY <1>4, <1>5, <1>6, <1>7, <1>8, <1>9, <1>10, <1>11, <1>12 DEF Next

\* So Chosen is an invariant.
LEMMA ChosenHolds == Spec => []Chosen
  BY ChosenInit, ChosenStep, PTL DEF Spec

\* The device that diagnostics uses has been shown by clinfo, if the machine is as it
\* was when clinfo listed it.
THEOREM UsesWhatIsListed == Spec => []UsedIsListed
<1>1. Chosen => UsedIsListed
  <2> SUFFICES ASSUME Chosen, pc \in {"device", "options", "build"}, current, device # NoDevice
               PROVE  \E i \in DOMAIN listing : \E j \in DOMAIN listing[i].devices :
                        listing[i].devices[j].id = device.id
    BY DEF UsedIsListed
  <2>1. machine \in Machines /\ device \in ToSet(GetDevices(machine)) /\ listing = Json(machine)
    BY DEF Chosen
  <2>2. PICK i \in DOMAIN machine : device \in ToSet(PlatformDevices(machine[i]))
    BY <2>1, DevicesOfMachine
  <2> DEFINE p == machine[i]
  <2>3. p \in PlatformAnswers
    BY <2>1, MachinesAssumption
  <2>4. "devices" \notin p.unreadable /\ \E j \in DOMAIN p.devices : device = OclsDevice(p.devices[j])
    BY <2>2, <2>3, DevicesOfPlatform
  <2>5. PICK j \in DOMAIN p.devices : device = OclsDevice(p.devices[j])
    BY <2>4
  <2>6. i \in DOMAIN listing /\ listing[i] = GetPlatformJSONInfo(p)
    BY <2>1 DEF Json
  <2>7. j \in DOMAIN listing[i].devices /\ listing[i].devices[j] = GetDeviceJSONInfo(p.devices[j])
    BY <2>4, <2>6 DEF GetPlatformJSONInfo
  <2>8. listing[i].devices[j].id = device.id
    BY <2>5, <2>7 DEF GetDeviceJSONInfo, OclsDevice
  <2>9. QED
    BY <2>6, <2>7, <2>8
<1>2. QED
  BY <1>1, ChosenHolds, PTL

\* An identifier that is listed selects a device that has it, if the standards of the
\* device listed and of those in front of it can be read.
THEOREM ListedIsSelected == Spec => []SelectedIsListed
<1>1. Chosen => SelectedIsListed
  <2> SUFFICES ASSUME Chosen, pc \in {"options", "build"}, current, request.deviceID > 0,
                      NEW i \in DOMAIN listing, NEW j \in DOMAIN listing[i].devices,
                      listing[i].devices[j].id = request.deviceID,
                      \A k \in 1 .. j : GetCLStandard(machine[i].devices[k]) # Throws
               PROVE  device # NoDevice /\ device.id = request.deviceID
    BY DEF SelectedIsListed
  <2> DEFINE p == machine[i]
  <2>1. i \in DOMAIN machine /\ listing[i] = GetPlatformJSONInfo(p) /\ p \in PlatformAnswers
    BY MachinesAssumption DEF Chosen, Json
  <2>2. "devices" \notin p.unreadable
    BY <2>1 DEF GetPlatformJSONInfo
  <2>3. j \in DOMAIN p.devices /\ listing[i].devices[j] = GetDeviceJSONInfo(p.devices[j])
    BY <2>1, <2>2 DEF GetPlatformJSONInfo
  <2>4. OclsDevice(p.devices[j]) \in ToSet(PlatformDevices(p))
    BY <2>1, <2>2, <2>3, DevicesOfPlatform
  <2>5. OclsDevice(p.devices[j]).id = request.deviceID
    BY <2>3 DEF OclsDevice, GetDeviceJSONInfo
  <2>6. OclsDevice(p.devices[j]) \in ToSet(GetDevices(machine))
    BY <2>1, <2>4, DevicesOfMachine DEF Chosen
  <2>7. Asked(request.deviceID)
    BY <2>5, <2>6 DEF Asked
  <2>8. QED
    BY <2>7 DEF Chosen
<1>2. QED
  BY <1>1, ChosenHolds, PTL

\* The kernel is built for the version of the device that builds it, or for the one
\* the user names.
THEOREM BuildsForItsDevice == Spec => []BuiltForItsDevice
<1>1. Init => BuiltForItsDevice
  BY DEF Init, BuiltForItsDevice
<1>2. Chosen /\ BuiltForItsDevice /\ [Next]_vars => BuiltForItsDevice'
  <2> SUFFICES ASSUME Chosen, BuiltForItsDevice, [Next]_vars PROVE BuiltForItsDevice'
    OBVIOUS
  <2> USE DEF machineVars, diagnosticsVars
  <2>1. CASE ChooseOptions
    <3>1. /\ pc = "options" /\ UNCHANGED <<request, device>>
          /\ buildOptions' = IF request.options # NoOptions
                             THEN Settings!WithStandard(request.options, device) ELSE buildOptions
      BY <2>1 DEF ChooseOptions
    <3>2. /\ request.deviceID \in Nat
          /\ request.options = [flags |-> request.options.flags, std |-> request.options.std]
          /\ request.deviceID = 0 => buildOptions = Settings!WithStandard(NoOptions, device)
      BY <3>1, RequestsAssumption DEF Chosen
    <3>3. QED
      BY <3>1, <3>2 DEF BuiltForItsDevice, Settings!WithStandard, Settings!StandardOf, NoOptions
  <2>2. CASE \/ UNCHANGED vars \/ MachineChanges
    BY <2>2 DEF BuiltForItsDevice, MachineChanges, vars
  <2>3. CASE pc' # "build"
    BY <2>3 DEF BuiltForItsDevice
  <2>4. QED
    BY <2>1, <2>2, <2>3 DEF Next, CLInfo, StartDiagnostics, ChooseDevice, Build, CompletionCommand,
                            Definition, Declaration, TypeDefinition, Queries, Again, Stops, Prints
<1>3. QED
  BY <1>1, <1>2, ChosenHolds, PTL DEF Spec

\* The variables keep their types, and a command succeeds exactly when it prints.
THEOREM TypeCorrect == Spec => []TypeOK
<1>1. Init => TypeOK
  <2> SUFFICES ASSUME Init PROVE TypeOK
    OBVIOUS
  <2>1. changes \in 0 .. MaxChanges
    BY ChangesAssumption DEF Init
  <2>2. /\ pc = "idle" /\ machine \in Machines /\ listing = Nothing /\ current = FALSE
        /\ parsed = FALSE /\ request = Nothing
    BY DEF Init
  <2>3. QED
    BY <2>1, <2>2 DEF TypeOK
<1>2. Chosen /\ TypeOK /\ Chosen' /\ [Next]_vars => TypeOK'
  <2> SUFFICES ASSUME Chosen, TypeOK, Chosen', [Next]_vars PROVE TypeOK'
    OBVIOUS
  <2> USE DEF machineVars, diagnosticsVars
  <2>1. machine' \in Machines /\ changes' \in 0 .. MaxChanges
    BY ChangesAssumption DEF Chosen, TypeOK, Next, vars, CLInfo, StartDiagnostics, ChooseDevice, ChooseOptions,
          Build, CompletionCommand, Definition, Declaration, TypeDefinition, Starts, MachineChanges, Again
  <2>2. device' # NoDevice => device'.id \in Nat /\ device'.power \in Nat /\ device'.std # Throws
    BY SelectableFields DEF Chosen
  <2>3. CASE UNCHANGED vars
    BY <2>3 DEF vars, TypeOK
  <2>4. ASSUME NEW r \in Requests, CLInfo(r) PROVE TypeOK'
    <3>1. /\ request' = r /\ pc' = "done" /\ UNCHANGED parsed
          /\ \/ exit' = "aborted" /\ output' = Nothing /\ UNCHANGED <<listing, current>>
             \/ exit' = "EXIT_SUCCESS" /\ output' = Json(machine) /\ listing' = output' /\ current' = TRUE
      BY <2>4 DEF CLInfo, Starts, Stops, Prints
    <3>2. Json(machine) # Nothing
      BY NothingAssumption DEF TypeOK
    <3>3. listing' \in {Nothing} \cup {Json(m) : m \in Machines} /\ current' \in BOOLEAN
      BY <3>1 DEF TypeOK
    <3>4. QED
      BY <2>1, <2>4, <3>1, <3>2, <3>3 DEF TypeOK
  <2>5. ASSUME NEW r \in Requests, StartDiagnostics(r) PROVE TypeOK'
    <3>1. /\ request' = r /\ UNCHANGED <<listing, current, parsed>>
          /\ \/ pc' = "done" /\ exit' = "EXIT_FAILURE" /\ output' = Nothing
             \/ pc' = "device"
      BY <2>5 DEF StartDiagnostics, Starts, Stops
    <3>2. QED
      BY <2>1, <2>2, <2>5, <3>1 DEF TypeOK
  <2>6. CASE ChooseDevice \/ ChooseOptions
    <3>1. pc' \in {"options", "build"} /\ UNCHANGED <<listing, current, parsed, request>>
      BY <2>6 DEF ChooseDevice, ChooseOptions
    <3>2. QED
      BY <2>1, <2>2, <3>1 DEF TypeOK
  <2>7. CASE Build
    <3>1. /\ pc = "build" /\ pc' = "done" /\ UNCHANGED <<listing, current, parsed, request>>
          /\ \/ exit' = "EXIT_FAILURE" /\ output' = Nothing
             \/ /\ buildLog' \in BuildLogs \cup {<<>>}
                /\ exit' = "EXIT_SUCCESS" /\ output' = Reported(buildLog')
      BY <2>7 DEF Build, BuildSource, Stops, Prints
    <3>2. \A log \in BuildLogs \cup {<<>>} : Reported(log) # Nothing
      <4>1. request \in Requests /\ request.command = "diagnostics" /\ maxNumberOfProblems = request.limit
        BY <3>1 DEF Chosen
      <4>2. QED
        BY <4>1, NothingAssumption DEF Reported
    <3>3. QED
      BY <2>1, <3>1, <3>2 DEF TypeOK
  <2>8. ASSUME NEW r \in Requests, NEW found, found # Nothing, Queries(r, found), request' = r
        PROVE  TypeOK'
    <3>1. /\ pc' = "done" /\ UNCHANGED <<listing, current>> /\ parsed' \in BOOLEAN
          /\ \/ exit' = "EXIT_FAILURE" /\ output' = Nothing
             \/ exit' = "EXIT_SUCCESS" /\ output' \in {found, <<>>}
      BY <2>8 DEF Queries, Stops, Prints
    <3>2. <<>> # Nothing
      BY NothingAssumption
    <3>3. QED
      BY <2>1, <2>8, <3>1, <3>2 DEF TypeOK
  <2>9. ASSUME NEW r \in Requests, CompletionCommand(r) \/ Definition(r) \/ Declaration(r) \/ TypeDefinition(r)
        PROVE  TypeOK'
    BY <2>8, <2>9, NothingAssumption DEF CompletionCommand, Definition, Declaration, TypeDefinition, Starts
  <2>10. CASE MachineChanges \/ Again
    BY <2>1, <2>2, <2>10 DEF MachineChanges, Again, TypeOK
  <2>11. QED
    BY <2>3, <2>4, <2>5, <2>6, <2>7, <2>9, <2>10 DEF Next
<1>3. QED
  BY <1>1, <1>2, ChosenHolds, PTL DEF Spec
=============================================================================
