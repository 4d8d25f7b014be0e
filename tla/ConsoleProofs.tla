--------------------------- MODULE ConsoleProofs ---------------------------
(***************************************************************************)
(* Theorems about the copies of the fleet that the web app holds, for any  *)
(* number of devices, groups, reports and requests: the live map (LiveMap) *)
(* and the tree of groups and devices (DeviceTree).                        *)
(***************************************************************************)
EXTENDS MCConsole, Integers, SequenceTheorems, FiniteSetTheorems, WellFoundedInduction, TLAPS

(***************************************************************************)
(* The live map.                                                           *)
(***************************************************************************)
Messages == [of : Devices \cup {"alert"}, n : Nat]

\* A report of d is on its way to the page.
Coming(d) == \E i \in DOMAIN feed : feed[i].of = d

\* The newest report of d is on its way to the page.
NewestComing(d) == \E i \in DOMAIN feed : feed[i].of = d /\ feed[i].n = latest[d]

\* The newest report of a device is shown, on its way or excused.
MapInv ==
    /\ latest \in [Devices -> 0..MaxReport] /\ positions \in [Devices -> Nat]
    /\ seeds \in [Loads -> [Devices -> Nat]]
    /\ feed \in Seq(Messages)
    /\ conn # "open" => feed = <<>>
    /\ \A d \in Devices : positions[d] <= latest[d]
    /\ \A i \in Loads, d \in Devices : seeds[i][d] <= latest[d] \/ seeds[i][d] = Unread
    /\ \A i \in DOMAIN feed : feed[i].of \in Devices => feed[i].n <= latest[feed[i].of]
    /\ \A d \in Devices \ excused : positions[d] = latest[d] \/ NewestComing(d)

\* A message is added to the feed, or the first one taken from it.
LEMMA FeedGrows ==
    ASSUME NEW s \in Seq(Messages), NEW m \in Messages, NEW t, t = Append(s, m)
    PROVE  /\ t \in Seq(Messages)
           /\ \E n \in Nat : /\ DOMAIN s = 1..n /\ DOMAIN t = 1..(n + 1)
                             /\ t[n + 1] = m /\ \A i \in 1..n : t[i] = s[i]
<1>1. PICK n \in Nat : n = Len(s) /\ DOMAIN s = 1..n
    BY LenProperties
<1>2. t \in Seq(Messages) /\ DOMAIN t = 1..(n + 1)
    BY <1>1, LenProperties
<1>3. t[n + 1] = m /\ \A i \in 1..n : t[i] = s[i]
    BY <1>1
<1> QED
    BY <1>1, <1>2, <1>3

LEMMA FeedShrinks ==
    ASSUME NEW s \in Seq(Messages), s # <<>>, NEW t, t = Tail(s)
    PROVE  /\ t \in Seq(Messages) /\ Head(s) = s[1]
           /\ \E n \in Nat : /\ DOMAIN s = 1..(n + 1) /\ DOMAIN t = 1..n
                             /\ \A i \in 1..n : t[i] = s[i + 1]
<1>1. PICK k \in Nat : k = Len(s) /\ DOMAIN s = 1..k
    BY LenProperties
<1>2. k # 0
    BY <1>1, EmptySeq
<1>3. PICK n \in Nat : k = n + 1
    BY <1>2
<1>4. t \in Seq(Messages) /\ Len(t) = n /\ \A i \in 1..n : t[i] = s[i + 1]
    BY <1>1, <1>2, <1>3, HeadTailProperties
<1>5. DOMAIN t = 1..n
    BY <1>4, LenProperties
<1> QED
    BY <1>1, <1>3, <1>4, <1>5

LEMMA MapStart == Init => MapInv
<1> SUFFICES ASSUME Init PROVE MapInv
    OBVIOUS
<1>1. Idle \in [Devices -> Nat] /\ \A d \in Devices : Idle[d] = 0
    BY DEF Idle, None
<1>2. feed = <<>> /\ DOMAIN feed = {} /\ feed \in Seq(Messages)
    BY DEF Init
<1>3. /\ latest \in [Devices -> 0..MaxReport] /\ positions \in [Devices -> Nat]
      /\ \A d \in Devices : positions[d] = 0 /\ latest[d] = 0
    BY MapAssumption DEF Init, None
<1>4. /\ seeds \in [Loads -> [Devices -> Nat]]
      /\ \A i \in Loads, d \in Devices : seeds[i][d] = 0
    BY <1>1 DEF Init
<1> QED
    BY <1>2, <1>3, <1>4 DEF MapInv

LEMMA PublishKeeps ==
    ASSUME MapInv, NEW d \in Devices, NEW here \in BOOLEAN, Publish(d, here)
    PROVE  MapInv'
<1>1. PICK k \in 0..MaxReport : k = latest[d]
    BY DEF MapInv
<1>2. k + 1 \in 0..MaxReport /\ k + 1 \in Nat
    BY <1>1, MapAssumption DEF Publish
<1>3. /\ latest' = [latest EXCEPT ![d] = k + 1]
      /\ UNCHANGED <<positions, seeds, conn>>
    BY <1>1 DEF Publish, reads, shown
<1>4. /\ latest' \in [Devices -> 0..MaxReport] /\ latest'[d] = k + 1
      /\ \A e \in Devices : e # d => latest'[e] = latest[e]
      /\ \A e \in Devices : latest[e] \in Nat /\ latest'[e] \in Nat /\ latest[e] <= latest'[e]
    BY <1>1, <1>2, <1>3, MapAssumption DEF MapInv
<1>5. /\ \A e \in Devices : positions'[e] <= latest'[e]
      /\ \A i \in Loads, e \in Devices : seeds'[i][e] <= latest'[e] \/ seeds'[i][e] = Unread
  <2>1. \A e \in Devices : positions[e] \in Nat
    BY DEF MapInv
  <2>2. \A i \in Loads, e \in Devices : seeds[i][e] \in Nat
    BY DEF MapInv
  <2> QED
    BY <1>3, <1>4, <2>1, <2>2 DEF MapInv
<1>6. CASE Reaches(here)
  <2>1. PICK m : m = [of |-> d, n |-> k + 1]
    OBVIOUS
  <2>2. m \in Messages /\ m.of = d /\ m.n = k + 1
    BY <1>2, <2>1 DEF Messages
  <2>3. feed' = Append(feed, m) /\ excused' = excused
    BY <1>4, <1>6, <2>1 DEF Publish, Broadcast
  <2>4. feed \in Seq(Messages)
    BY DEF MapInv
  <2>5. feed' \in Seq(Messages)
    BY <2>2, <2>3, <2>4, FeedGrows
  <2>6. PICK n \in Nat : /\ DOMAIN feed = 1..n /\ DOMAIN feed' = 1..(n + 1)
                         /\ feed'[n + 1] = m /\ \A i \in 1..n : feed'[i] = feed[i]
    <3> HIDE DEF Messages
    <3>1. m \in Messages /\ feed' = Append(feed, m)
      BY <2>2, <2>3
    <3> QED
      BY <2>4, <3>1, FeedGrows, SMTT(30)
  <2>7. ASSUME NEW i \in DOMAIN feed', feed'[i].of \in Devices
        PROVE  feed'[i].n <= latest'[feed'[i].of]
    <3>1. CASE i = n + 1
      BY <1>2, <1>4, <2>2, <2>6, <3>1
    <3>2. CASE i \in 1..n
      <4>1. feed'[i] = feed[i] /\ i \in DOMAIN feed
        BY <2>6, <3>2
      <4>2. feed[i] \in Messages
        BY <2>4, <4>1, ElementOfSeq, LenProperties
      <4>3. feed[i].n \in Nat /\ feed[i].of \in Devices
        BY <2>7, <4>1, <4>2 DEF Messages
      <4>4. feed[i].n <= latest[feed[i].of]
        BY <4>1, <4>3 DEF MapInv
      <4> QED
        BY <1>4, <4>1, <4>3, <4>4
    <3> QED
      BY <2>6, <2>7, <3>1, <3>2
  <2>8. ASSUME NEW e \in Devices, e \notin excused
        PROVE  positions'[e] = latest'[e] \/ NewestComing(e)'
    <3>1. CASE e = d
      BY <1>4, <2>2, <2>6, <3>1 DEF NewestComing
    <3>2. CASE e # d
      <4>1. positions[e] = latest[e] \/ NewestComing(e)
        BY <2>8 DEF MapInv
      <4>2. NewestComing(e) => NewestComing(e)'
        BY <1>4, <2>6, <3>2 DEF NewestComing
      <4> QED
        BY <1>3, <1>4, <3>2, <4>1, <4>2
    <3> QED
      BY <3>1, <3>2
  <2>9. positions' \in [Devices -> Nat] /\ seeds' \in [Loads -> [Devices -> Nat]] /\ conn' = "open"
    BY <1>3, <1>6 DEF MapInv, Reaches
  <2> QED
    BY <1>4, <1>5, <2>3, <2>5, <2>7, <2>8, <2>9 DEF MapInv
<1>7. CASE ~Reaches(here)
  <2>1. feed' = feed /\ excused' = excused \cup {d}
    BY <1>7 DEF Publish, Broadcast
  <2>2. ASSUME NEW e \in Devices \ excused'
        PROVE  positions'[e] = latest'[e] \/ NewestComing(e)'
    <3>1. e # d /\ e \notin excused
      BY <2>1, <2>2
    <3>2. positions[e] = latest[e] \/ NewestComing(e)
      BY <3>1 DEF MapInv
    <3> QED
      BY <1>3, <1>4, <2>1, <3>1, <3>2 DEF NewestComing
  <2>3. ASSUME NEW i \in DOMAIN feed', feed'[i].of \in Devices
        PROVE  feed'[i].n <= latest'[feed'[i].of]
    <3>1. feed[i] \in Messages
      BY <2>1, <2>3, ElementOfSeq, LenProperties DEF MapInv
    <3>2. feed[i].n \in Nat /\ feed[i].n <= latest[feed[i].of]
      BY <2>1, <2>3, <3>1 DEF MapInv, Messages
    <3> QED
      BY <1>4, <2>1, <2>3, <3>2
  <2>4. /\ positions' \in [Devices -> Nat] /\ seeds' \in [Loads -> [Devices -> Nat]]
        /\ feed' \in Seq(Messages) /\ (conn' # "open" => feed' = <<>>)
    BY <1>3, <2>1 DEF MapInv
  <2> QED
    BY <1>4, <1>5, <2>2, <2>3, <2>4 DEF MapInv
<1> QED
    BY <1>6, <1>7

LEMMA AlertKeeps ==
    ASSUME MapInv, NEW here \in BOOLEAN, PublishAlert(here), raised \in Nat
    PROVE  MapInv'
<1>1. UNCHANGED <<latest, positions, seeds, conn, excused>>
    BY DEF PublishAlert, reads, shown
<1>2. CASE Reaches(here)
  <2>1. PICK m : m = [of |-> "alert", n |-> raised']
    OBVIOUS
  <2>2. m \in Messages /\ m.of = "alert"
    BY <2>1 DEF Messages, PublishAlert
  <2>3. feed' = Append(feed, m)
    BY <1>2, <2>1 DEF PublishAlert, Broadcast
  <2>4. feed \in Seq(Messages)
    BY DEF MapInv
  <2>5. feed' \in Seq(Messages)
    BY <2>2, <2>3, <2>4, FeedGrows
  <2>6. PICK n \in Nat : /\ DOMAIN feed = 1..n /\ DOMAIN feed' = 1..(n + 1)
                         /\ feed'[n + 1] = m /\ \A i \in 1..n : feed'[i] = feed[i]
    BY <2>2, <2>3, <2>4, FeedGrows
  <2>7. ASSUME NEW i \in DOMAIN feed', feed'[i].of \in Devices
        PROVE  feed'[i].n <= latest[feed'[i].of]
    <3>1. i \in 1..n
      BY <2>2, <2>6, <2>7, MapAssumption
    <3>2. i \in DOMAIN feed /\ feed'[i] = feed[i]
      BY <2>6, <3>1
    <3> QED
      BY <2>7, <3>2 DEF MapInv
  <2>8. \A e \in Devices : NewestComing(e) => NewestComing(e)'
    BY <1>1, <2>6 DEF NewestComing
  <2> QED
    BY <1>1, <1>2, <2>5, <2>7, <2>8 DEF MapInv, Reaches
<1>3. CASE ~Reaches(here)
  <2>1. UNCHANGED feed
    BY <1>3 DEF PublishAlert, Broadcast
  <2> QED
    BY <1>1, <2>1 DEF MapInv, NewestComing
<1> QED
    BY <1>2, <1>3

LEMMA DropKeeps ==
    ASSUME MapInv, Drop
    PROVE  MapInv'
<1>1. /\ UNCHANGED <<latest, positions, seeds>>
      /\ feed' = <<>>
      /\ excused' = excused \cup {d \in Devices : Coming(d)}
    BY DEF Drop, server, reads, shown, Coming
<1>2. \A d \in Devices \ excused' : positions[d] = latest[d]
    BY <1>1 DEF MapInv, Coming, NewestComing
<1>3. feed' \in Seq(Messages)
    BY <1>1
<1> QED
    BY <1>1, <1>2, <1>3 DEF MapInv

LEMMA ReceiveKeeps ==
    ASSUME MapInv, Receive
    PROVE  MapInv'
<1>1. feed # <<>> /\ feed' = Tail(feed) /\ UNCHANGED <<latest, seeds, conn>>
    BY DEF Receive, server, reads
<1>2. feed \in Seq(Messages)
    BY DEF MapInv
<1>3. feed' \in Seq(Messages) /\ Head(feed) = feed[1]
    BY <1>1, <1>2, FeedShrinks
<1>4. PICK n \in Nat : /\ DOMAIN feed = 1..(n + 1) /\ DOMAIN feed' = 1..n
                       /\ \A i \in 1..n : feed'[i] = feed[i + 1]
    BY <1>1, <1>2, FeedShrinks
<1>5. conn = "open"
    BY <1>1 DEF MapInv
<1>6. ASSUME NEW i \in DOMAIN feed', feed'[i].of \in Devices
      PROVE  feed'[i].n <= latest[feed'[i].of]
  <2>1. i \in 1..n /\ i + 1 \in DOMAIN feed /\ feed'[i] = feed[i + 1]
    BY <1>4, <1>6
  <2> QED
    BY <1>6, <2>1 DEF MapInv
<1>7. ASSUME NEW d \in Devices, NewestComing(d), feed[1].of = d => feed[1].n # latest[d]
      PROVE  NewestComing(d)'
  <2>1. PICK i \in DOMAIN feed : feed[i].of = d /\ feed[i].n = latest[d] /\ i # 1
    BY <1>7 DEF NewestComing
  <2>2. i - 1 \in 1..n /\ (i - 1) + 1 = i
    BY <1>4, <2>1
  <2> QED
    BY <1>1, <1>4, <2>1, <2>2 DEF NewestComing
<1>8. feed[1] \in Messages
    BY <1>2, <1>4, ElementOfSeq, LenProperties
<1>9. CASE Head(feed).of \in Devices /\ positions' = Hold(Head(feed))
                                     /\ excused' = Arrives(Head(feed).of, Head(feed).n)
  <2>1. PICK d \in Devices, k \in Nat : d = feed[1].of /\ k = feed[1].n
    BY <1>3, <1>8, <1>9 DEF Messages
  <2>2. 1 \in DOMAIN feed
    BY <1>4
  <2>3. k <= latest[d]
    BY <2>1, <2>2 DEF MapInv
  <2>4. positions' = [positions EXCEPT ![d] = k]
    BY <1>3, <1>9, <2>1 DEF Hold
  <2>5. /\ d \notin excused' => k = latest[d] \/ (d \notin excused /\ ~(k < positions[d]))
        /\ \A e \in Devices : e # d /\ e \notin excused' => e \notin excused
    BY <1>3, <1>9, <2>1 DEF Arrives
  <2>6. /\ positions' \in [Devices -> Nat] /\ positions'[d] = k
        /\ \A e \in Devices : e # d => positions'[e] = positions[e]
    BY <2>4 DEF MapInv
  <2>7. \A e \in Devices : positions'[e] <= latest[e]
    BY <2>3, <2>6 DEF MapInv
  <2>8. ASSUME NEW e \in Devices \ excused'
        PROVE  positions'[e] = latest[e] \/ NewestComing(e)'
    <3>1. CASE e = d /\ k = latest[d]
      BY <2>6, <3>1
    <3>2. CASE e = d /\ k # latest[d]
      <4>1. d \notin excused /\ ~(k < positions[d])
        BY <2>5, <2>8, <3>2
      <4>2. positions[d] # latest[d]
        <5>1. positions[d] \in Nat /\ latest[d] \in Nat
          BY MapAssumption DEF MapInv
        <5> QED
          BY <2>3, <3>2, <4>1, <5>1
      <4>3. NewestComing(d)
        BY <4>1, <4>2 DEF MapInv
      <4> QED
        BY <1>7, <2>1, <3>2, <4>3
    <3>3. CASE e # d
      <4>1. e \notin excused
        BY <2>5, <2>8, <3>3
      <4>2. positions[e] = latest[e] \/ NewestComing(e)
        BY <4>1 DEF MapInv
      <4> QED
        BY <1>7, <2>1, <2>6, <3>3, <4>2
    <3> QED
      BY <3>1, <3>2, <3>3
  <2> QED
    BY <1>1, <1>3, <1>5, <1>6, <2>6, <2>7, <2>8 DEF MapInv
<1>10. CASE Head(feed).of = "alert" /\ UNCHANGED <<positions, excused>>
  <2>1. feed[1].of \notin Devices
    BY <1>3, <1>10, MapAssumption
  <2>2. \A d \in Devices : NewestComing(d) => NewestComing(d)'
    BY <1>7, <2>1
  <2> QED
    BY <1>1, <1>3, <1>5, <1>6, <1>10, <2>2 DEF MapInv
<1> QED
    BY <1>9, <1>10 DEF Receive

LEMMA SeedKeeps ==
    ASSUME MapInv, NEW i \in Loads, Seed(i)
    PROVE  MapInv'
<1>1. /\ UNCHANGED <<latest, feed, conn>>
      /\ \A d \in Devices : seeds[i][d] # Unread
      /\ positions' = Merge(seeds[i])
      /\ seeds' = [seeds EXCEPT ![i] = Idle]
      /\ excused' = {d \in Devices :
                       \/ d \in excused /\ seeds[i][d] # latest[d]
                       \/ seeds[i][d] # None /\ seeds[i][d] < positions[d]}
    BY DEF Seed, server, socket
<1>2. /\ \A d \in Devices : seeds[i][d] \in Nat /\ positions[d] \in Nat /\ latest[d] \in Nat
      /\ \A d \in Devices : positions[d] <= latest[d] /\ seeds[i][d] <= latest[d]
    BY <1>1, MapAssumption DEF MapInv
<1>3. /\ positions' \in [Devices -> Nat]
      /\ \A d \in Devices : positions'[d] = IF seeds[i][d] = 0 THEN positions[d] ELSE seeds[i][d]
    BY <1>1, <1>2 DEF Merge, None
<1>4. \A d \in Devices : positions'[d] <= latest[d]
    BY <1>2, <1>3
<1>5. /\ seeds' \in [Loads -> [Devices -> Nat]]
      /\ \A j \in Loads : seeds'[j] = IF j = i THEN Idle ELSE seeds[j]
      /\ \A d \in Devices : Idle[d] = 0
  <2>1. Idle \in [Devices -> Nat] /\ \A d \in Devices : Idle[d] = 0
    BY DEF Idle, None
  <2> QED
    BY <1>1, <2>1 DEF MapInv
<1>6. ASSUME NEW j \in Loads, NEW d \in Devices
      PROVE  seeds'[j][d] <= latest[d] \/ seeds'[j][d] = Unread
  <2>1. CASE j = i
    BY <1>2, <1>5, <2>1
  <2>2. CASE j # i
    BY <1>5, <2>2 DEF MapInv
  <2> QED
    BY <2>1, <2>2
<1>7. ASSUME NEW d \in Devices \ excused'
      PROVE  positions'[d] = latest[d] \/ NewestComing(d)
  <2>1. /\ d \notin excused \/ seeds[i][d] = latest[d]
        /\ seeds[i][d] = 0 \/ ~(seeds[i][d] < positions[d])
    BY <1>1, <1>7 DEF None
  <2>2. CASE seeds[i][d] = latest[d]
    BY <1>2, <1>3, <2>2
  <2>3. CASE d \notin excused
    <3>1. positions[d] = latest[d] \/ NewestComing(d)
      BY <2>3 DEF MapInv
    <3> QED
      BY <1>2, <1>3, <2>1, <3>1
  <2> QED
    BY <2>1, <2>2, <2>3
<1> QED
    BY <1>1, <1>3, <1>4, <1>5, <1>6, <1>7 DEF MapInv, NewestComing

LEMMA ReadsKeep ==
    ASSUME MapInv,
           \/ ListDevices
           \/ \E i \in Loads, d \in Devices : ReadLatest(i, d)
    PROVE  MapInv'
<1>1. UNCHANGED <<latest, feed, conn, positions, excused>>
    BY DEF ListDevices, ReadLatest, server, socket, shown
<1>2. Unread \in Nat /\ \A d \in Devices : latest[d] \in Nat
    BY MapAssumption DEF Unread, MapInv
<1>3. CASE ListDevices
  <2>1. PICK j, list : /\ seeds' = [seeds EXCEPT ![j] = list]
                       /\ list = [d \in Devices |-> IF d \in listed THEN Unread ELSE None]
    BY <1>3 DEF ListDevices
  <2>2. list \in [Devices -> Nat] /\ \A d \in Devices : list[d] = Unread \/ list[d] = 0
    BY <1>2, <2>1 DEF None
  <2>3. seeds' \in [Loads -> [Devices -> Nat]]
    BY <2>1, <2>2 DEF MapInv
  <2>4. \A i \in Loads, d \in Devices : seeds'[i][d] <= latest[d] \/ seeds'[i][d] = Unread
    BY <1>2, <2>1, <2>2 DEF MapInv
  <2> QED
    BY <1>1, <2>3, <2>4 DEF MapInv, NewestComing
<1>4. CASE \E i \in Loads, d \in Devices : ReadLatest(i, d)
  <2>1. PICK i \in Loads, d \in Devices : ReadLatest(i, d)
    BY <1>4
  <2>2. PICK r \in {latest[d], 0} : seeds' = [seeds EXCEPT ![i][d] = r]
    BY <2>1 DEF ReadLatest, None
  <2>3. r \in Nat /\ r <= latest[d]
    BY <1>2, <2>2
  <2>4. PICK list : list = [seeds[i] EXCEPT ![d] = r]
    OBVIOUS
  <2>5. seeds \in [Loads -> [Devices -> Nat]] /\ seeds' = [seeds EXCEPT ![i] = list]
    BY <2>2, <2>4 DEF MapInv
  <2>6. /\ list \in [Devices -> Nat] /\ list[d] = r
        /\ \A e \in Devices : e # d => list[e] = seeds[i][e]
    BY <2>3, <2>4, <2>5
  <2>7. /\ seeds' \in [Loads -> [Devices -> Nat]] /\ seeds'[i] = list
        /\ \A j \in Loads : j # i => seeds'[j] = seeds[j]
    BY <2>5, <2>6
  <2>8. ASSUME NEW j \in Loads, NEW e \in Devices
        PROVE  seeds'[j][e] <= latest[e] \/ seeds'[j][e] = Unread
    <3>1. CASE j = i /\ e = d
      BY <2>3, <2>6, <2>7, <3>1
    <3>2. CASE j # i \/ e # d
      <4>1. seeds'[j][e] = seeds[j][e]
        BY <2>6, <2>7, <3>2
      <4> QED
        BY <4>1 DEF MapInv
    <3> QED
      BY <3>1, <3>2
  <2> QED
    BY <1>1, <2>7, <2>8 DEF MapInv, NewestComing
<1> QED
    BY <1>3, <1>4

LEMMA MapStays ==
    ASSUME MapInv, latest' = latest, feed' = feed, positions' = positions, seeds' = seeds,
           excused' = excused, conn' # "open" => feed = <<>>
    PROVE  MapInv'
<1>1. /\ latest' \in [Devices -> 0..MaxReport] /\ positions' \in [Devices -> Nat]
      /\ seeds' \in [Loads -> [Devices -> Nat]]
      /\ feed' \in Seq(Messages)
      /\ conn' # "open" => feed' = <<>>
    BY DEF MapInv
<1>2. /\ \A d \in Devices : positions'[d] <= latest'[d]
      /\ \A i \in Loads, d \in Devices : seeds'[i][d] <= latest'[d] \/ seeds'[i][d] = Unread
    BY DEF MapInv
<1>3. \A i \in DOMAIN feed' : feed'[i].of \in Devices => feed'[i].n <= latest'[feed'[i].of]
    BY DEF MapInv
<1>4. \A d \in Devices \ excused' : positions'[d] = latest'[d] \/ NewestComing(d)'
    BY DEF MapInv, NewestComing
<1> QED
    BY <1>1, <1>2, <1>3, <1>4 DEF MapInv

LEMMA MapStep ==
    ASSUME MapInv, raised \in Nat, [Next]_vars
    PROVE  MapInv' /\ raised' \in Nat
<1>1. raised' \in Nat
  <2>1. CASE \E here \in BOOLEAN : PublishAlert(here)
    BY <2>1 DEF PublishAlert
  <2>2. CASE ~ \E here \in BOOLEAN : PublishAlert(here)
    <3>1. UNCHANGED raised
      BY <2>2 DEF Next, Publish, DeleteDevice, Connect, Drop, Retry, Expire, Receive,
         ListDevices, Seed, ReadLatest, SeedAlerts, ClearAlerts, ClearReturns, server, vars
    <3> QED
      BY <3>1
  <2> QED
    BY <2>1, <2>2
<1>2. CASE Connect \/ Retry
  <2>1. UNCHANGED <<latest, feed, positions, seeds, excused>> /\ conn # "open"
    BY <1>2 DEF Connect, Retry, server, reads, shown
  <2>2. feed = <<>>
    BY <2>1 DEF MapInv
  <2> QED
    BY <1>1, <2>1, <2>2, MapStays
<1>3. CASE \/ Expire \/ ClearAlerts \/ ClearReturns
           \/ \E d \in Devices : DeleteDevice(d)
           \/ \E list \in asked : SeedAlerts(list)
           \/ UNCHANGED vars
  <2>1. UNCHANGED <<latest, feed, conn, positions, seeds, excused>>
    BY <1>3 DEF Expire, ClearAlerts, ClearReturns, DeleteDevice, SeedAlerts, vars, server,
       socket, reads, shown
  <2>2. conn' # "open" => feed = <<>>
    BY <2>1 DEF MapInv
  <2> QED
    BY <1>1, <2>1, <2>2, MapStays
<1> QED
    BY <1>1, <1>2, <1>3, PublishKeeps, AlertKeeps, DropKeeps, ReceiveKeeps, ReadsKeep, SeedKeeps
    DEF Next

\* For any devices, reports and lost connections, and reads that come in any order:
\* an open map that has handled all it was sent is behind the server only for a
\* report that went out while it was away or at the other replica, or a read and a
\* report that overtook each other.
THEOREM MapKeepsUp == Spec => []BehindIsExcused
<1> DEFINE Inv == MapInv /\ raised \in Nat
<1>1. Init => Inv
    BY MapStart DEF Init
<1>2. Inv /\ [Next]_vars => Inv'
    BY MapStep
<1>3. Inv => BehindIsExcused
  <2> SUFFICES ASSUME MapInv, feed = <<>>, NEW d \in Devices, positions[d] < latest[d],
                      d \notin excused
               PROVE  FALSE
    BY DEF BehindIsExcused
  <2>1. ~NewestComing(d)
    BY DEF NewestComing
  <2>2. positions[d] = latest[d] /\ latest[d] \in Nat
    BY <2>1, MapAssumption DEF MapInv
  <2> QED
    BY <2>2
<1> HIDE DEF Inv
<1> QED
    BY <1>1, <1>2, <1>3, PTL DEF Spec

(***************************************************************************)
(* The tree of groups and devices.                                         *)
(***************************************************************************)
Ops == {"move", "reparent", "delete", "create"}
Targets == Groups \cup {Tree!None}
TreeRequests == [op : Ops, ids : SUBSET Devices, left : SUBSET Devices, of : Targets,
                 to : Targets, phase : {"idle", "sent", "refused", "listing"},
                 lone : BOOLEAN, fresh : BOOLEAN]

TreeTypes ==
    /\ requests \in [Tree!Id -> TreeRequests]
    /\ group \in [Devices -> Groups \cup {Tree!None, Tree!Absent}]
    /\ checked \subseteq Devices
    /\ drag \in [ids : SUBSET Devices, of : Targets]

\* A request that is alone is the only one.
OneAlone ==
    \A i, j \in Tree!Id :
      i # j /\ requests[i].lone /\ requests[i].phase # "idle" => requests[j].phase = "idle"

\* The devices of a move that is alone have moved, but those left.
HasMoved ==
    \A i \in Tree!Id :
      requests[i].op = "move" /\ requests[i].phase = "sent" /\ requests[i].lone
      => \A d \in requests[i].ids \ requests[i].left : group[d] = requests[i].to

\* While no groups have changed since the page read them, the server would
\* accept what the page has sent.
StaysLegal ==
    \A i \in Tree!Id :
      requests[i].op = "reparent" /\ requests[i].fresh
      => requests[i].phase # "refused" /\ (requests[i].phase = "sent" => Tree!Legal(requests[i]))

TreeInv == TreeTypes /\ OneAlone /\ HasMoved /\ StaysLegal

\* The page itself does nothing to the server or to the requests.
LEMMA PageKeeps ==
    ASSUME TreeInv, requests' = requests, group' = group, parent' = parent,
           checked' \subseteq Devices, drag' \in [ids : SUBSET Devices, of : Targets]
    PROVE  TreeInv'
<1>1. TreeTypes'
    BY DEF TreeInv, TreeTypes
<1>2. OneAlone'
    BY DEF TreeInv, OneAlone
<1>3. HasMoved'
    BY DEF TreeInv, HasMoved
<1>4. \A r : Tree!Legal(r)' <=> Tree!Legal(r)
    BY DEF Tree!Legal, Tree!In, Tree!Exists
<1>5. StaysLegal'
    BY <1>4 DEF TreeInv, StaysLegal
<1> QED
    BY <1>1, <1>2, <1>3, <1>5 DEF TreeInv

\* A request of the page, which the server accepts if nothing changes first.
LEMMA StartKeepsTree ==
    ASSUME TreeInv, NEW op \in Ops, NEW ids \in SUBSET Devices, NEW g \in Targets,
           NEW to \in Targets, Tree!Start(op, ids, g, to),
           drag' \in [ids : SUBSET Devices, of : Targets],
           op = "reparent" /\ depts = parent /\ g \in Tree!Tree =>
             \A r \in TreeRequests :
               r.op = "reparent" /\ r.of = g /\ r.to = to => Tree!Legal(r)
    PROVE  TreeInv'
<1>1. PICK alone \in BOOLEAN : alone = \A i \in Tree!Id : requests[i].phase = "idle"
    OBVIOUS
<1>2. PICK same \in BOOLEAN : same = (depts = parent /\ g \in Tree!Tree)
    OBVIOUS
<1>3. PICK x : x = [op |-> op, ids |-> ids, left |-> ids, of |-> g, to |-> to,
                    phase |-> "sent", lone |-> alone, fresh |-> same]
    OBVIOUS
<1>4. /\ x \in TreeRequests /\ x.op = op /\ x.ids = ids /\ x.left = ids /\ x.of = g /\ x.to = to
      /\ x.phase = "sent" /\ x.lone = alone /\ x.fresh = same
    BY <1>3 DEF TreeRequests
<1>5. /\ requests' = [i \in Tree!Id |-> IF i # sent' THEN Tree!Lapped(requests[i]) ELSE x]
      /\ UNCHANGED <<parent, group, checked>>
    BY <1>1, <1>2, <1>3 DEF Tree!Start, Tree!server
<1>6. ASSUME NEW r \in TreeRequests
      PROVE  /\ Tree!Lapped(r) \in TreeRequests /\ Tree!Lapped(r).op = r.op
             /\ Tree!Lapped(r).phase = r.phase /\ ~Tree!Lapped(r).lone
             /\ Tree!Lapped(r).fresh = r.fresh /\ Tree!Lapped(r).of = r.of
             /\ Tree!Lapped(r).to = r.to
    BY DEF Tree!Lapped, TreeRequests
<1>7. requests' \in [Tree!Id -> TreeRequests]
    BY <1>4, <1>5, <1>6 DEF TreeInv, TreeTypes
<1>8. TreeTypes'
    BY <1>5, <1>7 DEF TreeInv, TreeTypes
<1>9. ASSUME NEW i \in Tree!Id
      PROVE  \/ i = sent' /\ requests'[i] = x
             \/ i # sent' /\ requests[i] \in TreeRequests /\ requests'[i] = Tree!Lapped(requests[i])
    BY <1>5 DEF TreeInv, TreeTypes
<1>10. OneAlone'
  <2> SUFFICES ASSUME NEW i \in Tree!Id, NEW j \in Tree!Id, i # j, requests'[i].lone
               PROVE  requests'[j].phase = "idle"
    BY DEF OneAlone
  <2>1. i = sent' /\ alone
    BY <1>4, <1>6, <1>9
  <2>2. j # sent' /\ requests[j] \in TreeRequests /\ requests'[j] = Tree!Lapped(requests[j])
    BY <1>9, <2>1
  <2> QED
    BY ZenonT(60), <1>1, <1>6, <2>1, <2>2
<1>11. HasMoved'
  <2> SUFFICES ASSUME NEW i \in Tree!Id, requests'[i].lone
               PROVE  requests'[i].ids \ requests'[i].left = {}
    BY DEF HasMoved
  <2>1. requests'[i] = x
    BY <1>6, <1>9
  <2> QED
    BY <1>4, <2>1
<1>12. \A r : Tree!Legal(r)' <=> Tree!Legal(r)
    BY <1>5 DEF Tree!Legal, Tree!In, Tree!Exists
<1>13. StaysLegal'
  <2> SUFFICES ASSUME NEW i \in Tree!Id, requests'[i].op = "reparent", requests'[i].fresh
               PROVE  /\ requests'[i].phase # "refused"
                      /\ requests'[i].phase = "sent" => Tree!Legal(requests'[i])
    BY <1>12 DEF StaysLegal
  <2>1. CASE requests'[i] = x
    BY <1>2, <1>4, <2>1
  <2>2. CASE requests[i] \in TreeRequests /\ requests'[i] = Tree!Lapped(requests[i])
    <3>1. PICK r \in TreeRequests, s \in TreeRequests :
            /\ r = requests[i] /\ s = requests'[i]
            /\ s.op = r.op /\ s.phase = r.phase /\ s.fresh = r.fresh /\ s.of = r.of /\ s.to = r.to
      BY <1>6, <2>2
    <3>2. r.op = "reparent" /\ r.phase # "refused" /\ (r.phase = "sent" => Tree!Legal(r))
      BY <3>1 DEF TreeInv, StaysLegal
    <3>3. Tree!Legal(r) => Tree!Legal(s)
      BY <3>1, <3>2 DEF Tree!Legal
    <3> QED
      BY <3>1, <3>2, <3>3
  <2> QED
    BY <1>9, <2>1, <2>2
<1> QED
    BY <1>8, <1>10, <1>11, <1>13 DEF TreeInv

\* What the page starts, it starts with what it holds of the fleet.
LEMMA UserKeeps ==
    ASSUME TreeInv, NEW to \in Tree!In(depts) \cup {Tree!None}, NEW g \in Targets, NEW d,
           \/ Tree!Drop(to) \/ Tree!BulkMove(to) \/ Tree!CreateGroup(g, to)
           \/ (d \in Devices /\ Tree!Ungroup(d)) \/ Tree!ToTop(g) \/ Tree!DeleteGroup(g)
    PROVE  TreeInv'
<1>1. to \in Targets /\ Tree!None \in Targets
    BY DEF Targets, Tree!In
<1>2. /\ checked \in SUBSET Devices /\ {} \in SUBSET Devices
      /\ drag.ids \in SUBSET Devices /\ drag.of \in Targets
    BY DEF TreeInv, TreeTypes
<1>3. {"move", "reparent", "delete", "create"} \subseteq Ops
    BY DEF Ops
<1>4. [ids |-> {}, of |-> Tree!None] \in [ids : SUBSET Devices, of : Targets]
    BY <1>1
<1>5. drag \in [ids : SUBSET Devices, of : Targets]
    BY DEF TreeInv, TreeTypes
\* A drop that the page allows is legal where its groups are the server's.
<1>6. ASSUME NEW h \in Targets, NEW s \in Tree!In(depts) \cup {Tree!None},
             s = Tree!None \/ Tree!CanDropGroup(h, s),
             depts = parent, h \in Tree!Tree, NEW r \in TreeRequests,
             r.op = "reparent", r.of = h, r.to = s
      PROVE  Tree!Legal(r)
  <2>1. h \in Tree!In(parent) /\ Tree!Exists(s)
    BY <1>6 DEF Tree!Tree, Tree!Exists
  <2>2. s = Tree!None \/ h \notin Tree!Above(parent, s)
    BY <1>6 DEF Tree!CanDropGroup
  <2> QED
    BY <1>6, <2>1, <2>2 DEF Tree!Legal
<1>7. CASE Tree!Drop(to)
  <2>1. drag' = [ids |-> {}, of |-> Tree!None]
    BY <1>7 DEF Tree!Drop, Tree!Nobody
  <2>2. CASE drag.of = Tree!None /\ Tree!Start("move", drag.ids, Tree!None, to)
    BY <1>1, <1>2, <1>3, <1>4, <2>1, <2>2, StartKeepsTree
  <2>3. CASE /\ to = Tree!None \/ Tree!CanDropGroup(drag.of, to)
             /\ Tree!Start("reparent", {}, drag.of, to)
    <3>1. depts = parent /\ drag.of \in Tree!Tree =>
            \A r \in TreeRequests :
              r.op = "reparent" /\ r.of = drag.of /\ r.to = to => Tree!Legal(r)
      BY <1>2, <1>6, <2>3
    <3> QED
      BY <1>1, <1>2, <1>3, <1>4, <2>1, <2>3, <3>1, StartKeepsTree
  <2> QED
    BY <1>7, <2>2, <2>3 DEF Tree!Drop
<1>8. CASE Tree!BulkMove(to)
  <2>1. Tree!Start("move", checked, Tree!None, to) /\ drag' = drag
    BY <1>8 DEF Tree!BulkMove
  <2> QED
    BY <1>1, <1>2, <1>3, <1>5, <2>1, StartKeepsTree
<1>9. CASE Tree!CreateGroup(g, to)
  <2>1. Tree!Start("create", {}, g, to) /\ drag' = drag
    BY <1>9 DEF Tree!CreateGroup
  <2> QED
    BY <1>1, <1>2, <1>3, <1>5, <2>1, StartKeepsTree
<1>10. CASE d \in Devices /\ Tree!Ungroup(d)
  <2>1. /\ Tree!Start("move", {d}, Tree!None, Tree!None) /\ drag' = drag
        /\ {d} \in SUBSET Devices
    BY <1>10 DEF Tree!Ungroup
  <2> QED
    BY <1>1, <1>2, <1>3, <1>5, <2>1, StartKeepsTree
<1>11. CASE Tree!ToTop(g)
  <2>1. Tree!Start("reparent", {}, g, Tree!None) /\ drag' = drag
    BY <1>11 DEF Tree!ToTop
  <2>2. depts = parent /\ g \in Tree!Tree =>
          \A r \in TreeRequests :
            r.op = "reparent" /\ r.of = g /\ r.to = Tree!None => Tree!Legal(r)
    BY <1>1, <1>6
  <2> QED
    BY <1>1, <1>2, <1>3, <1>5, <2>1, <2>2, StartKeepsTree
<1>12. CASE Tree!DeleteGroup(g)
  <2>1. Tree!Start("delete", {}, g, Tree!None) /\ drag' = drag
    BY <1>12 DEF Tree!DeleteGroup
  <2> QED
    BY <1>1, <1>2, <1>3, <1>5, <2>1, StartKeepsTree
<1> QED
    BY <1>7, <1>8, <1>9, <1>10, <1>11, <1>12

LEMMA HandKeeps ==
    ASSUME TreeInv,
           \/ \E h \in SUBSET Devices : Tree!Filter(h)
           \/ \E on \in BOOLEAN, g \in Groups : Tree!Check(Tree!Subtree(g), on)
           \/ \E on \in BOOLEAN, d \in Devices : d \in Tree!Rows /\ Tree!Check({d}, on)
           \/ \E d \in Devices : Tree!DragDevice(d)
           \/ \E g \in Groups : Tree!DragGroup(g)
           \/ Tree!EndDrag \/ Tree!ReadGroups \/ Tree!ReadDevices
           \/ UNCHANGED treeVars
    PROVE  TreeInv'
<1>1. checked \subseteq Devices /\ drag \in [ids : SUBSET Devices, of : Targets]
    BY DEF TreeInv, TreeTypes
<1>2. requests' = requests /\ group' = group /\ parent' = parent
    BY DEF Tree!Filter, Tree!Check, Tree!DragDevice, Tree!DragGroup, Tree!EndDrag,
       Tree!ReadGroups, Tree!ReadDevices, Tree!server, treeVars
<1>3. checked' \subseteq Devices
  <2>1. \A g : Tree!Subtree(g) \subseteq Devices
    BY DEF Tree!Subtree, Tree!Rows, Tree!Shown
  <2> QED
    BY <1>1, <2>1 DEF Tree!Filter, Tree!Check, Tree!DragDevice, Tree!DragGroup, Tree!EndDrag,
       Tree!ReadGroups, Tree!ReadDevices, Tree!List, treeVars
<1>4. drag' \in [ids : SUBSET Devices, of : Targets]
  <2>1. CASE \E d \in Devices : Tree!DragDevice(d)
    BY <1>1, <2>1 DEF Tree!DragDevice, Targets
  <2>2. CASE \E g \in Groups : Tree!DragGroup(g)
    BY <2>2 DEF Tree!DragGroup, Targets
  <2>3. CASE Tree!EndDrag
    BY <2>3 DEF Tree!EndDrag, Tree!Nobody, Targets
  <2>4. CASE drag' = drag
    BY <1>1, <2>4
  <2>5. \/ drag' = drag \/ Tree!EndDrag
        \/ \E d \in Devices : Tree!DragDevice(d)
        \/ \E g \in Groups : Tree!DragGroup(g)
    BY DEF Tree!Filter, Tree!Check, Tree!ReadGroups, Tree!ReadDevices, treeVars
  <2> QED
    BY <2>1, <2>2, <2>3, <2>4, <2>5
<1> QED
    BY <1>2, <1>3, <1>4, PageKeeps

\* The server changes its groups: nothing sent is known to be legal any more.
LEMMA GroupsChange ==
    ASSUME TreeInv, requests' \in [Tree!Id -> TreeRequests],
           group' \in [Devices -> Groups \cup {Tree!None, Tree!Absent}],
           checked' = checked, drag' = drag,
           \A i \in Tree!Id : ~requests'[i].fresh,
           \A i \in Tree!Id : /\ requests'[i].lone => requests[i].lone
                              /\ requests[i].phase = "idle" <=> requests'[i].phase = "idle",
           \A i \in Tree!Id : requests'[i].op = "move" /\ requests'[i].phase = "sent" =>
                                ~requests'[i].lone
    PROVE  TreeInv'
<1>1. TreeTypes'
    BY DEF TreeInv, TreeTypes
<1>2. OneAlone'
    BY DEF TreeInv, OneAlone
<1>3. HasMoved' /\ StaysLegal'
    BY DEF HasMoved, StaysLegal
<1> QED
    BY <1>1, <1>2, <1>3 DEF TreeInv

LEMMA ServeGroupKeeps ==
    ASSUME TreeInv, NEW i \in Tree!Id, Tree!ServeGroup(i)
    PROVE  TreeInv'
<1>1. /\ requests[i].phase = "sent" /\ requests[i].op # "move"
      /\ checked' = checked /\ drag' = drag
      /\ requests \in [Tree!Id -> TreeRequests]
      /\ group \in [Devices -> Groups \cup {Tree!None, Tree!Absent}]
    BY DEF Tree!ServeGroup, Tree!hand, TreeInv, TreeTypes
<1>2. CASE /\ Tree!Legal(requests[i])
           /\ \/ requests[i].op = "delete" /\ Tree!Remove(requests[i].of)
              \/ /\ requests[i].op # "delete" /\ UNCHANGED group
                 /\ parent' = [parent EXCEPT ![requests[i].of] = requests[i].to]
           /\ requests' = [j \in Tree!Id |-> [requests[j] EXCEPT !.fresh = FALSE,
                              !.phase = IF j = i THEN "listing" ELSE @]]
  <2>1. group' \in [Devices -> Groups \cup {Tree!None, Tree!Absent}]
    BY <1>1, <1>2 DEF Tree!Remove
  <2>2. ASSUME NEW j \in Tree!Id
        PROVE  /\ requests'[j] \in TreeRequests /\ ~requests'[j].fresh
               /\ requests'[j].op = requests[j].op /\ requests'[j].lone = requests[j].lone
               /\ requests'[j].phase = IF j = i THEN "listing" ELSE requests[j].phase
    <3>1. PICK r \in TreeRequests : r = requests[j]
      BY <1>1
    <3>2. PICK p : p = (IF j = i THEN "listing" ELSE r.phase)
      OBVIOUS
    <3>3. p \in {"idle", "sent", "refused", "listing"}
      BY <3>2 DEF TreeRequests
    <3>4. PICK s : s = [r EXCEPT !.fresh = FALSE, !.phase = p]
      OBVIOUS
    <3>5. requests'[j] = s
      BY <1>2, <3>1, <3>2, <3>4
    <3>6. s \in TreeRequests /\ s.op = r.op /\ s.lone = r.lone /\ s.phase = p
      BY <3>3, <3>4 DEF TreeRequests
    <3>7. ~s.fresh
      BY <3>4 DEF TreeRequests
    <3> QED
      BY <3>1, <3>2, <3>5, <3>6, <3>7
  <2>3. requests' \in [Tree!Id -> TreeRequests]
    BY <1>2, <2>2
  <2>4. \A j \in Tree!Id : requests'[j].op = "move" /\ requests'[j].phase = "sent" =>
                             ~requests'[j].lone
    BY <1>1, <2>2 DEF TreeInv, OneAlone
  <2> QED
    BY <1>1, <2>1, <2>2, <2>3, <2>4, GroupsChange
<1>3. CASE /\ ~Tree!Legal(requests[i]) /\ UNCHANGED <<parent, group>>
           /\ requests' = [requests EXCEPT ![i].phase = "refused"]
  <2>1. PICK r \in TreeRequests : r = requests[i]
    BY <1>1
  <2>2. PICK s : s = [r EXCEPT !.phase = "refused"]
    OBVIOUS
  <2>3. /\ s \in TreeRequests /\ s.op = r.op /\ s.lone = r.lone /\ s.fresh = r.fresh
        /\ s.phase = "refused"
    BY <2>2 DEF TreeRequests
  <2>4. requests' = [requests EXCEPT ![i] = s]
    BY <1>3, <2>1, <2>2
  <2>5. /\ requests' \in [Tree!Id -> TreeRequests] /\ requests'[i] = s
        /\ \A j \in Tree!Id : j # i => requests'[j] = requests[j]
    BY <1>1, <2>3, <2>4
  <2>6. TreeTypes'
    BY <1>1, <1>3, <2>5 DEF TreeInv, TreeTypes
  <2>7. OneAlone'
    BY <1>1, <2>1, <2>3, <2>5 DEF TreeInv, OneAlone
  <2>8. HasMoved'
    BY <1>3, <2>3, <2>5 DEF TreeInv, HasMoved
  <2>9. \A q : Tree!Legal(q)' <=> Tree!Legal(q)
    BY <1>3 DEF Tree!Legal, Tree!In, Tree!Exists
  <2>10. requests[i].op # "reparent" \/ ~requests[i].fresh
    BY <1>1, <1>3 DEF TreeInv, StaysLegal
  <2>11. StaysLegal'
    BY <2>1, <2>3, <2>5, <2>9, <2>10 DEF TreeInv, StaysLegal
  <2> QED
    BY <2>6, <2>7, <2>8, <2>11 DEF TreeInv
<1> QED
    BY <1>2, <1>3 DEF Tree!ServeGroup, Tree!server

LEMMA AssignKeeps ==
    ASSUME TreeInv, NEW i \in Tree!Id, Tree!Assign(i)
    PROVE  TreeInv'
<1>1. PICK r \in TreeRequests : r = requests[i]
    BY DEF TreeInv, TreeTypes
<1>2. /\ r.phase = "sent" /\ r.op = "move" /\ UNCHANGED <<parent, checked, drag>>
      /\ requests \in [Tree!Id -> TreeRequests]
      /\ group \in [Devices -> Groups \cup {Tree!None, Tree!Absent}]
    BY <1>1 DEF Tree!Assign, Tree!hand, TreeInv, TreeTypes
<1>3. PICK d \in r.left :
        \/ /\ group' = [group EXCEPT ![d] = r.to]
           /\ requests' = [requests EXCEPT ![i].left = @ \ {d}]
        \/ requests' = [requests EXCEPT ![i] = Tree!OnRefusal(r, d)] /\ UNCHANGED group
    BY <1>1 DEF Tree!Assign
<1>4. d \in Devices /\ r.to \in Groups \cup {Tree!None} /\ r.left \subseteq Devices
    BY <1>3 DEF TreeRequests, Targets
<1>5. \A q : Tree!Legal(q)' <=> Tree!Legal(q)
    BY <1>2 DEF Tree!Legal, Tree!In, Tree!Exists
<1>6. CASE /\ group' = [group EXCEPT ![d] = r.to]
           /\ requests' = [requests EXCEPT ![i].left = @ \ {d}]
  <2>1. PICK s : s = [r EXCEPT !.left = r.left \ {d}]
    OBVIOUS
  <2>2. /\ s \in TreeRequests /\ s.op = r.op /\ s.lone = r.lone /\ s.fresh = r.fresh
        /\ s.phase = r.phase /\ s.ids = r.ids /\ s.to = r.to /\ s.left = r.left \ {d}
    BY <2>1 DEF TreeRequests
  <2>3. requests' = [requests EXCEPT ![i] = s]
    BY <1>1, <1>6, <2>1
  <2>4. /\ requests' \in [Tree!Id -> TreeRequests] /\ requests'[i] = s
        /\ \A j \in Tree!Id : j # i => requests'[j] = requests[j]
    BY <1>2, <2>2, <2>3
  <2>5. /\ group' \in [Devices -> Groups \cup {Tree!None, Tree!Absent}]
        /\ group'[d] = r.to /\ \A e \in Devices : e # d => group'[e] = group[e]
    BY <1>2, <1>4, <1>6
  <2>6. TreeTypes'
    BY <1>2, <2>4, <2>5 DEF TreeInv, TreeTypes
  <2>7. OneAlone'
    BY <1>1, <2>2, <2>4 DEF TreeInv, OneAlone
  <2>8. HasMoved'
    <3> SUFFICES ASSUME NEW j \in Tree!Id, requests'[j].op = "move",
                        requests'[j].phase = "sent", requests'[j].lone,
                        NEW e \in requests'[j].ids \ requests'[j].left
                 PROVE  group'[e] = requests'[j].to
      BY DEF HasMoved
    <3>1. j = i
      BY <1>1, <1>2, <2>4 DEF TreeInv, OneAlone
    <3>2. e \in r.ids /\ (e \in r.left => e = d) /\ r.lone /\ r.ids \subseteq Devices
      BY <2>2, <2>4, <3>1 DEF TreeRequests
    <3>3. CASE e = d
      BY <2>2, <2>4, <2>5, <3>1, <3>3
    <3>4. CASE e # d
      <4>1. group[e] = r.to
        BY <1>1, <1>2, <3>2, <3>4 DEF TreeInv, HasMoved
      <4> QED
        BY <2>2, <2>4, <2>5, <3>1, <3>2, <3>4, <4>1
    <3> QED
      BY <3>3, <3>4
  <2>9. StaysLegal'
    BY <1>2, <1>5, <2>2, <2>4 DEF TreeInv, StaysLegal
  <2> QED
    BY <2>6, <2>7, <2>8, <2>9 DEF TreeInv
<1>7. CASE requests' = [requests EXCEPT ![i] = Tree!OnRefusal(r, d)] /\ UNCHANGED group
  <2>1. PICK s : s = [r EXCEPT !.phase = "refused"]
    OBVIOUS
  <2>2. /\ s \in TreeRequests /\ s.op = r.op /\ s.lone = r.lone /\ s.phase = "refused"
    BY <2>1 DEF TreeRequests
  <2>3. requests' = [requests EXCEPT ![i] = s]
    BY <1>7, <2>1 DEF Tree!OnRefusal
  <2>4. /\ requests' \in [Tree!Id -> TreeRequests] /\ requests'[i] = s
        /\ \A j \in Tree!Id : j # i => requests'[j] = requests[j]
    BY <1>2, <2>2, <2>3
  <2>5. TreeTypes'
    BY <1>2, <1>7, <2>4 DEF TreeInv, TreeTypes
  <2>6. OneAlone'
    BY <1>1, <1>2, <2>2, <2>4 DEF TreeInv, OneAlone
  <2>7. HasMoved'
    BY <1>7, <2>2, <2>4 DEF TreeInv, HasMoved
  <2>8. StaysLegal'
    BY <1>2, <1>5, <2>2, <2>4 DEF TreeInv, StaysLegal
  <2> QED
    BY <2>5, <2>6, <2>7, <2>8 DEF TreeInv
<1> QED
    BY <1>3, <1>6, <1>7

\* A request is done with, or given up.
LEMMA EndKeepsTree ==
    ASSUME TreeInv, NEW i \in Tree!Id, Tree!Done(i) \/ Tree!Failed(i)
    PROVE  TreeInv'
<1>1. /\ UNCHANGED <<parent, group, drag>>
      /\ requests' = [requests EXCEPT ![i] = Tree!Idle]
    BY DEF Tree!Done, Tree!Failed, Tree!server
<1>2. checked' \subseteq checked
    BY DEF Tree!Done, Tree!Failed
<1>3. Tree!Idle \in TreeRequests /\ Tree!Idle.phase = "idle" /\ Tree!Idle.op = "move"
    BY DEF Tree!Idle, TreeRequests, Ops, Targets
<1>4. /\ requests' \in [Tree!Id -> TreeRequests] /\ requests'[i] = Tree!Idle
      /\ \A j \in Tree!Id : j # i => requests'[j] = requests[j]
    BY <1>1, <1>3 DEF TreeInv, TreeTypes
<1>5. TreeTypes'
    BY <1>1, <1>2, <1>4 DEF TreeInv, TreeTypes
<1>6. OneAlone'
    BY <1>3, <1>4 DEF TreeInv, OneAlone
<1>7. HasMoved'
    BY <1>1, <1>3, <1>4 DEF TreeInv, HasMoved
<1>8. \A q : Tree!Legal(q)' <=> Tree!Legal(q)
    BY <1>1 DEF Tree!Legal, Tree!In, Tree!Exists
<1>9. StaysLegal'
    BY <1>3, <1>4, <1>8 DEF TreeInv, StaysLegal
<1> QED
    BY <1>5, <1>6, <1>7, <1>9 DEF TreeInv

LEMMA OtherKeeps ==
    ASSUME TreeInv, NEW g \in Groups, NEW d \in Devices, Tree!Other(g, d)
    PROVE  TreeInv'
<1>1. /\ checked' = checked /\ drag' = drag
      /\ requests' = [i \in Tree!Id |-> [Tree!Lapped(requests[i]) EXCEPT !.fresh = FALSE]]
      /\ requests \in [Tree!Id -> TreeRequests]
      /\ group \in [Devices -> Groups \cup {Tree!None, Tree!Absent}]
    BY DEF Tree!Other, Tree!hand, TreeInv, TreeTypes
<1>2. group' \in [Devices -> Groups \cup {Tree!None, Tree!Absent}]
    BY <1>1 DEF Tree!Other, Tree!Remove
<1>3. ASSUME NEW i \in Tree!Id
      PROVE  /\ requests'[i] \in TreeRequests /\ ~requests'[i].fresh /\ ~requests'[i].lone
             /\ requests'[i].phase = requests[i].phase
  <2>1. PICK r \in TreeRequests : r = requests[i]
    BY <1>1
  <2>2. PICK s : s = [r EXCEPT !.lone = FALSE]
    OBVIOUS
  <2>3. PICK q : q = [s EXCEPT !.fresh = FALSE]
    OBVIOUS
  <2>4. requests'[i] = q
    BY <1>1, <2>1, <2>2, <2>3 DEF Tree!Lapped
  <2>5. s \in TreeRequests /\ s.phase = r.phase /\ s.lone = FALSE
    BY <2>2 DEF TreeRequests
  <2>6. q \in TreeRequests /\ q.phase = s.phase /\ q.lone = s.lone /\ q.fresh = FALSE
    BY <2>3, <2>5 DEF TreeRequests
  <2> QED
    BY <2>1, <2>4, <2>5, <2>6
<1>4. requests' \in [Tree!Id -> TreeRequests]
    BY <1>1, <1>3
<1> QED
    BY <1>1, <1>2, <1>3, <1>4, GroupsChange

LEMMA TreeInvariant == Tree!Spec => []TreeInv
<1>1. Tree!Init => TreeInv
  <2> SUFFICES ASSUME Tree!Init PROVE TreeInv
    OBVIOUS
  <2>1. Tree!Idle \in TreeRequests /\ Tree!Idle.phase = "idle" /\ Tree!Idle.op = "move"
    BY DEF Tree!Idle, TreeRequests, Ops, Targets
  <2>2. requests \in [Tree!Id -> TreeRequests] /\ \A i \in Tree!Id : requests[i] = Tree!Idle
    BY <2>1 DEF Tree!Init
  <2>3. /\ group \in [Devices -> Groups \cup {Tree!None, Tree!Absent}]
        /\ checked \subseteq Devices /\ drag \in [ids : SUBSET Devices, of : Targets]
    BY DEF Tree!Init, Tree!In, Tree!Nobody, Targets
  <2> QED
    BY <2>1, <2>2, <2>3 DEF TreeInv, TreeTypes, OneAlone, HasMoved, StaysLegal
<1>2. TreeInv /\ [Tree!Next]_Tree!vars => TreeInv'
  <2> SUFFICES ASSUME TreeInv, [Tree!Next]_Tree!vars PROVE TreeInv'
    OBVIOUS
  <2>1. CASE \/ \E h \in SUBSET Devices : Tree!Filter(h)
             \/ \E on \in BOOLEAN, g \in Groups : Tree!Check(Tree!Subtree(g), on)
             \/ \E on \in BOOLEAN, d \in Devices : d \in Tree!Rows /\ Tree!Check({d}, on)
             \/ \E d \in Devices : Tree!DragDevice(d)
             \/ \E g \in Groups : Tree!DragGroup(g)
             \/ Tree!EndDrag \/ Tree!ReadGroups \/ Tree!ReadDevices
    BY <2>1, HandKeeps
  <2>2. CASE UNCHANGED Tree!vars
    <3>1. UNCHANGED treeVars
      BY <2>2 DEF Tree!vars, Tree!server, Tree!lists, Tree!hand, treeVars
    <3> QED
      BY <3>1, HandKeeps
  <2>3. CASE \/ \E d \in Devices : Tree!Ungroup(d)
             \/ \E g \in Groups : Tree!ToTop(g) \/ Tree!DeleteGroup(g)
             \/ \E to \in Tree!In(depts) \cup {Tree!None} :
                  Tree!Drop(to) \/ Tree!BulkMove(to) \/ \E g \in Groups : Tree!CreateGroup(g, to)
    <3>1. Tree!None \in Tree!In(depts) \cup {Tree!None} /\ Tree!None \in Targets
      BY DEF Targets
    <3>2. CASE \E d \in Devices : Tree!Ungroup(d)
      BY <3>1, <3>2, UserKeeps
    <3>3. CASE \E g \in Groups : Tree!ToTop(g) \/ Tree!DeleteGroup(g)
      <4>1. PICK g \in Targets : Tree!ToTop(g) \/ Tree!DeleteGroup(g)
        BY <3>3 DEF Targets
      <4> QED
        BY <3>1, <4>1, UserKeeps
    <3>4. CASE \E to \in Tree!In(depts) \cup {Tree!None} :
                 Tree!Drop(to) \/ Tree!BulkMove(to) \/ \E g \in Groups : Tree!CreateGroup(g, to)
      <4>1. PICK to \in Tree!In(depts) \cup {Tree!None}, g \in Targets :
              Tree!Drop(to) \/ Tree!BulkMove(to) \/ Tree!CreateGroup(g, to)
        BY <3>1, <3>4 DEF Targets
      <4> QED
        BY <4>1, UserKeeps
    <3> QED
      BY <2>3, <3>2, <3>3, <3>4
  <2>4. CASE \E i \in Tree!Id : Tree!ServeGroup(i) \/ Tree!Assign(i) \/ Tree!Done(i) \/ Tree!Failed(i)
    BY <2>4, ServeGroupKeeps, AssignKeeps, EndKeepsTree
  <2>5. CASE \E g \in Groups, d \in Devices : Tree!Other(g, d)
    BY <2>5, OtherKeeps
  <2> QED
    BY <2>1, <2>2, <2>3, <2>4, <2>5 DEF Tree!Next
<1> QED
    BY <1>1, <1>2, PTL DEF Tree!Spec

\* For any devices, groups and admins: when a move that nobody crossed has been answered
\* for, every device of it is where it was sent.
THEOREM LoneMovesArrive == Tree!Spec => []LoneMoveIsTrue
<1>1. TreeInv => LoneMoveIsTrue
    BY DEF TreeInv, HasMoved, LoneMoveIsTrue, Tree!LoneMoveIsTrue, Tree!Assigned
<1> QED
    BY <1>1, TreeInvariant, PTL

(***************************************************************************)
(* The forest of groups.                                                   *)
(***************************************************************************)
Parents == [Groups -> Groups \cup {Tree!None, Tree!Absent}]

\* Every group is a root, or under one that is there.
Whole(up) == \A g \in Tree!In(up) : up[g] \in Tree!In(up) \cup {Tree!None}

\* The groups above g are the least set that rises from g.
LEMMA AboveRises ==
    ASSUME NEW up, NEW g \in Tree!In(up)
    PROVE  g \in Tree!Above(up, g) /\ Tree!Rising(up, Tree!Above(up, g))
BY DEF Tree!Above, Tree!Rising

LEMMA AboveIsWithin ==
    ASSUME NEW up, NEW g, NEW S \in SUBSET Tree!In(up), g \in S, Tree!Rising(up, S)
    PROVE  Tree!Above(up, g) \subseteq S
BY DEF Tree!Above

LEMMA AboveIsListed ==
    ASSUME NEW up, NEW g
    PROVE  /\ Tree!Above(up, g) \subseteq Tree!In(up)
           /\ g \notin Tree!In(up) => Tree!Above(up, g) = {}
BY DEF Tree!Above

\* What is above a group above g is above g.
LEMMA AboveGrows ==
    ASSUME NEW up, NEW g \in Tree!In(up), NEW h \in Tree!Above(up, g)
    PROVE  Tree!Above(up, h) \subseteq Tree!Above(up, g)
<1>1. PICK S : S = Tree!Above(up, g)
    OBVIOUS
<1>2. S \in SUBSET Tree!In(up) /\ h \in S /\ Tree!Rising(up, S)
    BY <1>1, AboveRises, AboveIsListed
<1> QED
    BY <1>1, <1>2, AboveIsWithin

\* Sets of naturals that are not empty have a least element.
LEMMA Least ==
    ASSUME NEW T \in SUBSET Nat, T # {}
    PROVE  \E x \in T : \A y \in T : x <= y
<1>1. PICK R : R = OpToRel(<, Nat)
    OBVIOUS
<1>2. IsWellFoundedOn(R, Nat) /\ \A x, y \in Nat : <<y, x>> \in R <=> y < x
    BY <1>1, NatLessThanWellFounded DEF OpToRel
<1>3. PICK x \in T : \A y \in T : ~(<<y, x>> \in R)
    BY <1>2, WFMin
<1>4. ASSUME NEW y \in T PROVE ~(y < x)
  <2>1. x \in Nat /\ y \in Nat /\ <<y, x>> \notin R
    BY <1>3
  <2> QED
    BY <1>2, <2>1
<1>5. ASSUME NEW y \in T PROVE x <= y
    BY <1>4
<1> QED
    BY <1>5

\* Whoever walks up a forest reaches a group whose parent is not listed: above the parent
\* of a group there are fewer groups than above the group.
LEMMA RootIsReached ==
    ASSUME NEW up \in Parents, Tree!Acyclic(up), NEW g \in Tree!In(up)
    PROVE  \E h \in Tree!Above(up, g) : up[h] \notin Tree!In(up)
<1> SUFFICES ASSUME \A h \in Tree!Above(up, g) : up[h] \in Tree!In(up)
             PROVE  FALSE
    OBVIOUS
<1> DEFINE Size(h) == Cardinality(Tree!Above(up, h))
           T == {Size(h) : h \in Tree!Above(up, g)}
<1>1. ASSUME NEW h PROVE IsFiniteSet(Tree!Above(up, h)) /\ Size(h) \in Nat
  <2>1. Tree!Above(up, h) \in SUBSET Groups
    BY AboveIsListed DEF Tree!In
  <2> QED
    BY <2>1, TreeAssumption, FS_Subset, FS_CardinalityType
<1>2. T \in SUBSET Nat /\ T # {}
    BY <1>1, AboveRises
<1> HIDE DEF T, Size
<1>3. PICK n \in T : \A m \in T : n <= m
    BY <1>2, Least
<1>4. PICK h \in Tree!Above(up, g) : n = Size(h)
    BY DEF T
<1>5. PICK p : p = up[h]
    OBVIOUS
<1>6. /\ p \in Tree!In(up) /\ p \in Tree!Above(up, g) /\ p \in Tree!Above(up, h)
      /\ h \in Tree!Above(up, h) /\ h \in Tree!In(up)
    BY <1>4, <1>5, AboveRises, AboveIsListed DEF Tree!Rising
<1>7. Tree!Above(up, p) \subseteq Tree!Above(up, h)
    BY <1>6, AboveGrows
<1>8. h \notin Tree!Above(up, p)
    BY <1>5, <1>6 DEF Tree!Acyclic
<1>9. Size(p) < Size(h)
  <2>1. PICK A, B : A = Tree!Above(up, p) /\ B = Tree!Above(up, h)
    OBVIOUS
  <2>2. IsFiniteSet(B) /\ A \in SUBSET B /\ A # B
    BY <1>1, <1>6, <1>7, <1>8, <2>1
  <2>3. Cardinality(A) <= Cardinality(B) /\ Cardinality(A) # Cardinality(B)
    BY <2>2, FS_Subset
  <2>4. Cardinality(A) \in Nat /\ Cardinality(B) \in Nat
    BY <1>1, <2>1 DEF Size
  <2> QED
    BY <2>1, <2>3, <2>4 DEF Size
<1>10. Size(p) \in T
    BY <1>6 DEF T
<1> QED
    BY <1>1, <1>3, <1>4, <1>9, <1>10

\* A group that changes its parent, for one it is not above, leaves a forest; so does one
\* that was not there.
LEMMA MovedIsForest ==
    ASSUME NEW up \in Parents, Whole(up), Tree!Acyclic(up), NEW g \in Groups,
           NEW to \in Tree!In(up) \cup {Tree!None}, g \notin Tree!Above(up, to)
    PROVE  /\ Tree!Acyclic([up EXCEPT ![g] = to]) /\ Whole([up EXCEPT ![g] = to])
           /\ [up EXCEPT ![g] = to] \in Parents
<1>1. PICK vp : vp = [up EXCEPT ![g] = to]
    OBVIOUS
<1>2. Tree!None \notin Groups /\ Tree!Absent \notin Groups /\ Tree!None # Tree!Absent
    BY TreeAssumption DEF Tree!None, Tree!Absent
<1>3. /\ vp \in Parents /\ vp[g] = to /\ \A h \in Groups : h # g => vp[h] = up[h]
      /\ Tree!In(vp) = Tree!In(up) \cup {g} /\ Tree!None \notin Tree!In(vp)
      /\ Tree!In(up) \subseteq Groups
    BY <1>1, <1>2 DEF Parents, Tree!In
<1>4. Whole(vp)
    BY <1>3 DEF Whole
\* The groups above one that g is not above are who they were.
<1>5. ASSUME NEW h \in Tree!In(up), g \notin Tree!Above(up, h)
      PROVE  Tree!Above(vp, h) \subseteq Tree!Above(up, h)
  <2>1. PICK S : S = Tree!Above(up, h)
    OBVIOUS
  <2>2. /\ S \subseteq Tree!In(up) /\ h \in S /\ g \notin S
        /\ \A x \in S : up[x] \in Tree!In(up) => up[x] \in S
    BY <1>5, <2>1, AboveIsListed, AboveRises DEF Tree!Rising
  <2>3. ASSUME NEW x \in S, vp[x] \in Tree!In(vp) PROVE vp[x] \in S
    BY <1>3, <2>2, <2>3 DEF Whole
  <2>4. S \in SUBSET Tree!In(vp) /\ Tree!Rising(vp, S)
    BY <1>3, <2>2, <2>3 DEF Tree!Rising
  <2> QED
    BY <2>1, <2>2, <2>4, AboveIsWithin
<1>6. ASSUME NEW h \in Tree!In(vp) PROVE vp[h] \notin Tree!In(vp) \/ h \notin Tree!Above(vp, vp[h])
  <2>1. PICK p : p = vp[h]
    OBVIOUS
  <2>2. CASE h = g
    BY <1>3, <1>5, <2>2
  <2>3. CASE h # g /\ p \in Tree!In(vp)
    <3>1. h \in Tree!In(up) /\ p = up[h] /\ p \in Tree!In(up) /\ h \notin Tree!Above(up, p)
      BY <1>3, <2>1, <2>3 DEF Whole, Tree!Acyclic
    <3>2. CASE g \notin Tree!Above(up, p)
      BY <1>5, <2>1, <3>1, <3>2
    <3>3. CASE g \in Tree!Above(up, p)
      <4>1. PICK A, B : A = Tree!Above(up, p) /\ B = Tree!Above(up, to)
        OBVIOUS
      <4>2. /\ A \subseteq Tree!In(up) /\ B \subseteq Tree!In(up) /\ p \in A
            /\ to \in Tree!In(up) => to \in B
            /\ \A x \in A : up[x] \in Tree!In(up) => up[x] \in A
        BY <3>1, <4>1, AboveIsListed, AboveRises DEF Tree!Rising
      <4>3. \A x \in B : up[x] \in Tree!In(up) => up[x] \in B
        BY <1>3, <4>1, AboveIsListed, AboveRises DEF Tree!Rising
      <4>4. ASSUME NEW x \in A \cup B, vp[x] \in Tree!In(vp) PROVE vp[x] \in A \cup B
        BY <1>3, <4>2, <4>3, <4>4 DEF Whole
      <4>5. A \cup B \in SUBSET Tree!In(vp) /\ Tree!Rising(vp, A \cup B)
        BY <1>3, <4>2, <4>4 DEF Tree!Rising
      <4>6. Tree!Above(vp, p) \subseteq A \cup B
        BY <4>2, <4>5, AboveIsWithin
      \* Were h below to, what is above h would be above to, g as well.
      <4>7. h \notin B
        <5> SUFFICES ASSUME h \in B PROVE FALSE
          OBVIOUS
        <5>1. to \in Tree!In(up)
          BY <4>1, AboveIsListed
        <5>2. p \in Tree!Above(up, to)
          BY <3>1, <4>1, <4>3
        <5>3. Tree!Above(up, p) \subseteq Tree!Above(up, to)
          BY <5>1, <5>2, AboveGrows
        <5> QED
          BY <3>3, <5>3
      <4> QED
        BY <2>1, <3>1, <4>1, <4>6, <4>7
    <3> QED
      BY <3>2, <3>3
  <2> QED
    BY <2>1, <2>2, <2>3
<1> QED
    BY <1>1, <1>3, <1>4, <1>6 DEF Tree!Acyclic

\* A group goes with those under it.
LEMMA RestIsForest ==
    ASSUME NEW up \in Parents, Whole(up), Tree!Acyclic(up), NEW g \in Tree!In(up), NEW vp,
           vp = [h \in Groups |-> IF h \in Tree!In(up) /\ g \in Tree!Above(up, h)
                                  THEN Tree!Absent ELSE up[h]]
    PROVE  vp \in Parents /\ Whole(vp) /\ Tree!Acyclic(vp)
<1>1. /\ vp \in Parents /\ Tree!In(up) \subseteq Groups /\ Tree!None \notin Groups
      /\ Tree!In(vp) = {h \in Tree!In(up) : g \notin Tree!Above(up, h)}
      /\ \A h \in Tree!In(vp) : vp[h] = up[h]
    BY TreeAssumption DEF Parents, Tree!In, Tree!None
<1>2. ASSUME NEW h \in Tree!In(vp), up[h] \in Tree!In(up) PROVE up[h] \in Tree!In(vp)
  <2>1. PICK p : p = up[h]
    OBVIOUS
  <2>2. p \in Tree!Above(up, h)
    BY <1>1, <1>2, <2>1, AboveRises DEF Tree!Rising
  <2>3. Tree!Above(up, p) \subseteq Tree!Above(up, h)
    BY <1>1, <1>2, <2>2, AboveGrows
  <2> QED
    BY <1>1, <1>2, <2>1, <2>3
<1>3. Whole(vp)
    BY <1>1, <1>2 DEF Whole
<1>4. ASSUME NEW h \in Tree!In(vp) PROVE Tree!Above(vp, h) \subseteq Tree!Above(up, h)
  <2>1. PICK S : S = Tree!Above(up, h) \cap Tree!In(vp)
    OBVIOUS
  <2>2. ASSUME NEW x \in S, vp[x] \in Tree!In(vp) PROVE vp[x] \in S
    BY <1>1, <1>4, <2>1, <2>2, AboveRises DEF Tree!Rising
  <2>3. S \in SUBSET Tree!In(vp) /\ h \in S /\ Tree!Rising(vp, S)
    BY <1>1, <1>4, <2>1, <2>2, AboveRises DEF Tree!Rising
  <2> QED
    BY <2>1, <2>3, AboveIsWithin
<1>5. Tree!Acyclic(vp)
    BY <1>1, <1>4 DEF Tree!Acyclic
<1> QED
    BY <1>1, <1>3, <1>5

Creating(i) == requests[i].op = "create" /\ requests[i].phase = "sent"

\* The server's groups form a forest, and so does the page's list, whenever it was read;
\* groups to be created are not there yet, and differ.
ForestInv ==
    /\ parent \in Parents /\ Whole(parent) /\ Tree!Acyclic(parent)
    /\ depts \in Parents /\ Tree!Acyclic(depts)
    /\ \A i \in Tree!Id : Creating(i) =>
         /\ requests[i].of \in Groups /\ parent[requests[i].of] = Tree!Absent
         /\ \A j \in Tree!Id : j # i /\ Creating(j) => requests[j].of # requests[i].of

\* The groups stay, or the page reads them.
LEMMA ListedIsForest ==
    ASSUME ForestInv, parent' = parent, depts' \in {depts, parent},
           \A i \in Tree!Id : Creating(i)' => Creating(i) /\ requests'[i].of = requests[i].of
    PROVE  ForestInv'
<1>1. parent' \in Parents /\ Whole(parent)' /\ Tree!Acyclic(parent)'
    BY DEF ForestInv, Parents, Whole, Tree!Acyclic, Tree!In, Tree!Above, Tree!Rising
<1>2. depts' \in Parents /\ Tree!Acyclic(depts)'
    BY DEF ForestInv, Parents, Whole, Tree!Acyclic, Tree!In, Tree!Above, Tree!Rising
<1>3. \A i \in Tree!Id : Creating(i)' =>
        /\ requests'[i].of \in Groups /\ parent'[requests'[i].of] = Tree!Absent
        /\ \A j \in Tree!Id : j # i /\ Creating(j)' => requests'[j].of # requests'[i].of
    BY DEF ForestInv
<1> QED
    BY <1>1, <1>2, <1>3 DEF ForestInv

\* The server changes its groups.
LEMMA ChangedIsForest ==
    ASSUME ForestInv, NEW up \in Parents, Whole(up), Tree!Acyclic(up), parent' = up,
           depts' = depts,
           \A i \in Tree!Id : Creating(i)' =>
             Creating(i) /\ requests'[i].of = requests[i].of /\ up[requests[i].of] = Tree!Absent
    PROVE  ForestInv'
<1>1. parent' \in Parents /\ Whole(parent)' /\ Tree!Acyclic(parent)'
    BY DEF Parents, Whole, Tree!Acyclic, Tree!In, Tree!Above, Tree!Rising
<1>2. depts' \in Parents /\ Tree!Acyclic(depts)'
    BY DEF ForestInv, Parents, Tree!Acyclic, Tree!In, Tree!Above, Tree!Rising
<1>3. \A i \in Tree!Id : Creating(i)' =>
        /\ requests'[i].of \in Groups /\ parent'[requests'[i].of] = Tree!Absent
        /\ \A j \in Tree!Id : j # i /\ Creating(j)' => requests'[j].of # requests'[i].of
    BY DEF ForestInv
<1> QED
    BY <1>1, <1>2, <1>3 DEF ForestInv

LEMMA ServedIsForest ==
    ASSUME TreeInv, ForestInv, NEW i \in Tree!Id, Tree!ServeGroup(i)
    PROVE  ForestInv'
<1>1. PICK r \in TreeRequests : r = requests[i]
    BY DEF TreeInv, TreeTypes
<1>2. /\ r.phase = "sent" /\ r.op # "move" /\ depts' = depts
      /\ requests \in [Tree!Id -> TreeRequests]
      /\ parent \in Parents /\ Whole(parent) /\ Tree!Acyclic(parent)
    BY <1>1 DEF Tree!ServeGroup, Tree!lists, TreeInv, TreeTypes, ForestInv
<1>3. CASE /\ Tree!Legal(r)
           /\ \/ r.op = "delete" /\ Tree!Remove(r.of)
              \/ r.op # "delete" /\ parent' = [parent EXCEPT ![r.of] = r.to]
           /\ requests' = [j \in Tree!Id |-> [requests[j] EXCEPT !.fresh = FALSE,
                              !.phase = IF j = i THEN "listing" ELSE @]]
  <2>1. ASSUME NEW j \in Tree!Id
        PROVE  /\ Creating(j)' => j # i /\ Creating(j)
               /\ requests'[j].of = requests[j].of
    <3>1. PICK q \in TreeRequests : q = requests[j]
      BY <1>2
    <3>2. PICK p : p = (IF j = i THEN "listing" ELSE q.phase)
      OBVIOUS
    <3>3. PICK s : s = [q EXCEPT !.fresh = FALSE, !.phase = p]
      OBVIOUS
    <3>4. requests'[j] = s
      BY <1>3, <3>1, <3>2, <3>3
    <3>5. s.op = q.op /\ s.phase = p /\ s.of = q.of
      BY <3>3 DEF TreeRequests
    <3> QED
      BY <3>1, <3>2, <3>4, <3>5 DEF Creating
  <2>2. ASSUME NEW up \in Parents, Whole(up), Tree!Acyclic(up), parent' = up,
               \A j \in Tree!Id : j # i /\ Creating(j) => up[requests[j].of] = Tree!Absent
        PROVE  ForestInv'
    BY <1>2, <2>1, <2>2, ChangedIsForest
  <2>3. \A j \in Tree!Id : Creating(j) =>
          requests[j].of \in Groups /\ parent[requests[j].of] = Tree!Absent
    BY DEF ForestInv
  <2>4. CASE r.op = "delete" /\ Tree!Remove(r.of)
    <3>1. r.of \in Tree!In(parent)
      BY <1>3, <2>4 DEF Tree!Legal
    <3>2. PICK up : up = [h \in Groups |-> IF h \in Tree!In(parent) /\ r.of \in Tree!Above(parent, h)
                                           THEN Tree!Absent ELSE parent[h]]
      OBVIOUS
    <3>3. parent' = up
      BY <2>4, <3>2 DEF Tree!Remove, Tree!Doomed
    <3>4. up \in Parents /\ Whole(up) /\ Tree!Acyclic(up)
      BY <1>2, <3>1, <3>2, RestIsForest
    <3>5. \A j \in Tree!Id : j # i /\ Creating(j) => up[requests[j].of] = Tree!Absent
      BY <2>3, <3>2
    <3> QED
      BY <2>2, <3>3, <3>4, <3>5
  <2>5. CASE r.op # "delete" /\ parent' = [parent EXCEPT ![r.of] = r.to]
    <3>1. PICK up : up = [parent EXCEPT ![r.of] = r.to]
      OBVIOUS
    <3>2. /\ r.op \in {"reparent", "create"} /\ r.to \in Tree!In(parent) \cup {Tree!None}
          /\ r.op = "reparent" => r.of \in Tree!In(parent)
      BY <1>2, <1>3, <2>5 DEF Tree!Legal, Tree!Exists, TreeRequests, Ops
    <3>3. r.op = "create" => Creating(i)
      BY <1>1, <1>2 DEF Creating
    <3>4. r.of \in Groups /\ r.of \notin Tree!Above(parent, r.to)
      <4>1. Tree!None \notin Tree!In(parent)
        BY TreeAssumption DEF Tree!In, Tree!None
      <4>2. CASE r.op = "reparent"
        BY <1>3, <3>2, <4>1, <4>2, AboveIsListed DEF Tree!Legal, Tree!In
      <4>3. CASE r.op = "create"
        BY <1>1, <2>3, <3>3, <4>3, AboveIsListed DEF Tree!In
      <4> QED
        BY <3>2, <4>2, <4>3
    <3>5. up \in Parents /\ Whole(up) /\ Tree!Acyclic(up)
      BY <1>2, <3>1, <3>2, <3>4, MovedIsForest
    <3>6. ASSUME NEW j \in Tree!Id, j # i, Creating(j) PROVE up[requests[j].of] = Tree!Absent
      <4>1. requests[j].of # r.of
        <5>1. CASE r.op = "reparent"
          BY <2>3, <3>2, <3>6, <5>1 DEF Tree!In
        <5>2. CASE r.op = "create"
          BY <1>1, <3>3, <3>6, <5>2 DEF ForestInv
        <5> QED
          BY <3>2, <5>1, <5>2
      <4> QED
        BY <1>2, <2>3, <3>1, <3>6, <4>1 DEF Parents
    <3> QED
      BY <2>2, <2>5, <3>1, <3>5, <3>6
  <2> QED
    BY <1>3, <2>4, <2>5
<1>4. CASE parent' = parent /\ requests' = [requests EXCEPT ![i].phase = "refused"]
  <2>1. PICK s : s = [r EXCEPT !.phase = "refused"]
    OBVIOUS
  <2>2. s.phase = "refused" /\ requests' = [requests EXCEPT ![i] = s]
    BY <1>1, <1>4, <2>1 DEF TreeRequests
  <2>3. \A j \in Tree!Id : Creating(j)' => Creating(j) /\ requests'[j].of = requests[j].of
    BY <1>2, <2>2 DEF Creating
  <2> QED
    BY <1>2, <1>4, <2>3, ListedIsForest
<1> QED
    BY <1>1, <1>3, <1>4 DEF Tree!ServeGroup, Tree!server

\* What the page sends: a creation names a group of its own.
LEMMA StartedIsForest ==
    ASSUME TreeInv, ForestInv, NEW op \in Ops, NEW ids, NEW g, NEW to,
           Tree!Start(op, ids, g, to), op = "create" => g \in Groups /\ Tree!Unused(g)
    PROVE  ForestInv'
<1>1. PICK x : /\ x.op = op /\ x.of = g
               /\ requests' = [i \in Tree!Id |-> IF i # sent' THEN Tree!Lapped(requests[i]) ELSE x]
  <2>1. PICK alone \in BOOLEAN : alone = \A i \in Tree!Id : requests[i].phase = "idle"
    OBVIOUS
  <2>2. PICK same \in BOOLEAN : same = (depts = parent /\ g \in Tree!Tree)
    OBVIOUS
  <2>3. PICK x : x = [op |-> op, ids |-> ids, left |-> ids, of |-> g, to |-> to,
                      phase |-> "sent", lone |-> alone, fresh |-> same]
    OBVIOUS
  <2>4. requests' = [i \in Tree!Id |-> IF i # sent' THEN Tree!Lapped(requests[i]) ELSE x]
    BY <2>1, <2>2, <2>3 DEF Tree!Start
  <2>5. x.op = op /\ x.of = g
    BY <2>3
  <2> QED
    BY <2>4, <2>5
<1>2. UNCHANGED <<parent, depts>> /\ requests \in [Tree!Id -> TreeRequests]
    BY DEF Tree!Start, Tree!server, Tree!lists, TreeInv, TreeTypes
<1>3. ASSUME NEW i \in Tree!Id, i # sent'
      PROVE  requests'[i].op = requests[i].op /\ requests'[i].of = requests[i].of
             /\ requests'[i].phase = requests[i].phase
    BY <1>1, <1>2, <1>3 DEF Tree!Lapped, TreeRequests
<1>4. CASE op # "create"
    BY <1>1, <1>2, <1>3, <1>4, ListedIsForest DEF Creating
<1>5. CASE op = "create"
  <2>1. g \in Groups /\ parent[g] = Tree!Absent /\ \A i \in Tree!Id : requests[i].of # g
    BY <1>5 DEF Tree!Unused
  <2>2. ASSUME NEW i \in Tree!Id, Creating(i)'
        PROVE  requests'[i].of \in Groups /\ parent'[requests'[i].of] = Tree!Absent
    BY <1>1, <1>2, <1>3, <2>1, <2>2 DEF Creating, ForestInv
  <2>3. ASSUME NEW i \in Tree!Id, NEW j \in Tree!Id, i # j, Creating(i)', Creating(j)'
        PROVE  requests'[j].of # requests'[i].of
    BY <1>1, <1>3, <2>1, <2>3 DEF Creating, ForestInv
  <2>4. parent' \in Parents /\ Whole(parent)' /\ Tree!Acyclic(parent)'
        /\ depts' \in Parents /\ Tree!Acyclic(depts)'
    BY <1>2 DEF ForestInv, Parents, Whole, Tree!Acyclic, Tree!In, Tree!Above, Tree!Rising
  <2> QED
    BY <2>2, <2>3, <2>4 DEF ForestInv
<1> QED
    BY <1>4, <1>5

\* Devices are assigned, or a request is done with: no group changes.
LEMMA EndedIsForest ==
    ASSUME TreeInv, ForestInv, NEW i \in Tree!Id,
           Tree!Assign(i) \/ Tree!Done(i) \/ Tree!Failed(i)
    PROVE  ForestInv'
<1>1. parent' = parent /\ depts' \in {depts, parent} /\ requests \in [Tree!Id -> TreeRequests]
    BY DEF Tree!Assign, Tree!Done, Tree!Failed, Tree!server, Tree!lists, TreeInv, TreeTypes
<1>2. ASSUME NEW s, s.op # "create", requests' = [requests EXCEPT ![i] = s]
      PROVE  ForestInv'
  <2>1. \A j \in Tree!Id : Creating(j)' => Creating(j) /\ requests'[j].of = requests[j].of
    BY <1>1, <1>2 DEF Creating
  <2> QED
    BY <1>1, <2>1, ListedIsForest
<1>3. CASE Tree!Assign(i)
  <2>1. PICK r \in TreeRequests : r = requests[i] /\ r.op = "move"
    BY <1>1, <1>3 DEF Tree!Assign
  <2>2. PICK d : \/ requests' = [requests EXCEPT ![i].left = @ \ {d}]
                 \/ requests' = [requests EXCEPT ![i] = Tree!OnRefusal(r, d)]
    BY <1>3, <2>1 DEF Tree!Assign
  <2>3. CASE requests' = [requests EXCEPT ![i].left = @ \ {d}]
    <3>1. PICK s : s = [r EXCEPT !.left = r.left \ {d}]
      OBVIOUS
    <3>2. s.op = "move" /\ requests' = [requests EXCEPT ![i] = s]
      BY <2>1, <2>3, <3>1 DEF TreeRequests
    <3> QED
      BY <1>2, <3>2
  <2>4. CASE requests' = [requests EXCEPT ![i] = Tree!OnRefusal(r, d)]
    <3>1. Tree!OnRefusal(r, d).op = "move"
      BY <2>1 DEF Tree!OnRefusal, TreeRequests
    <3> QED
      BY <1>2, <2>4, <3>1
  <2> QED
    BY <2>2, <2>3, <2>4
<1>4. CASE Tree!Done(i) \/ Tree!Failed(i)
  <2>1. Tree!Idle.op # "create"
    BY DEF Tree!Idle
  <2> QED
    BY <1>2, <1>4, <2>1 DEF Tree!Done, Tree!Failed
<1> QED
    BY <1>3, <1>4

\* Another admin deletes a group.
LEMMA OthersLeaveAForest ==
    ASSUME TreeInv, ForestInv, NEW g \in Groups, NEW d \in Devices, Tree!Other(g, d)
    PROVE  ForestInv'
<1>1. /\ depts' = depts /\ requests \in [Tree!Id -> TreeRequests]
      /\ requests' = [i \in Tree!Id |-> [Tree!Lapped(requests[i]) EXCEPT !.fresh = FALSE]]
      /\ parent \in Parents /\ Whole(parent) /\ Tree!Acyclic(parent)
    BY DEF Tree!Other, Tree!lists, TreeInv, TreeTypes, ForestInv
<1>2. ASSUME NEW i \in Tree!Id
      PROVE  (Creating(i)' => Creating(i)) /\ requests'[i].of = requests[i].of
  <2>1. PICK r \in TreeRequests : r = requests[i]
    BY <1>1
  <2>2. PICK s : s = [r EXCEPT !.lone = FALSE]
    OBVIOUS
  <2>3. PICK q : q = [s EXCEPT !.fresh = FALSE]
    OBVIOUS
  <2>4. requests'[i] = q
    BY <1>1, <2>1, <2>2, <2>3 DEF Tree!Lapped
  <2>5. s.op = r.op /\ s.phase = r.phase /\ s.of = r.of /\ s \in TreeRequests
    BY <2>2 DEF TreeRequests
  <2>6. q.op = s.op /\ q.phase = s.phase /\ q.of = s.of
    BY <2>3, <2>5 DEF TreeRequests
  <2> QED
    BY <2>1, <2>4, <2>5, <2>6 DEF Creating
<1>3. CASE parent' = parent
    BY <1>1, <1>2, <1>3, ListedIsForest
<1>4. CASE g \in Tree!In(parent) /\ Tree!Remove(g)
  <2>1. PICK up : up = [h \in Groups |-> IF h \in Tree!In(parent) /\ g \in Tree!Above(parent, h)
                                         THEN Tree!Absent ELSE parent[h]]
    OBVIOUS
  <2>2. parent' = up
    BY <1>4, <2>1 DEF Tree!Remove, Tree!Doomed
  <2>3. up \in Parents /\ Whole(up) /\ Tree!Acyclic(up)
    BY <1>1, <1>4, <2>1, RestIsForest
  <2>4. \A i \in Tree!Id : Creating(i) => up[requests[i].of] = Tree!Absent
    BY <2>1 DEF ForestInv
  <2> QED
    BY <1>1, <1>2, <2>2, <2>3, <2>4, ChangedIsForest
<1> QED
    BY <1>3, <1>4 DEF Tree!Other

LEMMA HandIsForest ==
    ASSUME ForestInv,
           \/ \E h \in SUBSET Devices : Tree!Filter(h)
           \/ \E on \in BOOLEAN, g \in Groups : Tree!Check(Tree!Subtree(g), on)
           \/ \E on \in BOOLEAN, d \in Devices : d \in Tree!Rows /\ Tree!Check({d}, on)
           \/ \E d \in Devices : Tree!DragDevice(d)
           \/ \E g \in Groups : Tree!DragGroup(g)
           \/ Tree!EndDrag \/ Tree!ReadGroups \/ Tree!ReadDevices
           \/ UNCHANGED treeVars
    PROVE  ForestInv'
<1>1. requests' = requests /\ parent' = parent /\ depts' \in {depts, parent}
    BY DEF Tree!Filter, Tree!Check, Tree!DragDevice, Tree!DragGroup, Tree!EndDrag,
       Tree!ReadGroups, Tree!ReadDevices, Tree!List, Tree!server, Tree!lists, treeVars
<1> QED
    BY <1>1, ListedIsForest DEF Creating

LEMMA ForestInvariant == Tree!Spec => []ForestInv
<1>1. Tree!Init => ForestInv
  <2> SUFFICES ASSUME Tree!Init PROVE ForestInv
    OBVIOUS
  <2>1. \A i \in Tree!Id : ~Creating(i)
    BY DEF Tree!Init, Tree!Idle, Creating
  <2>2. /\ parent \in Parents /\ Tree!Acyclic(parent)
        /\ \A g \in Groups : parent[g] \in Tree!In(parent) \cup {Tree!None, Tree!Absent}
    BY DEF Tree!Init, Parents
  <2>3. Whole(parent)
    BY <2>2 DEF Whole, Tree!In
  <2>4. depts \in Parents /\ Tree!In(depts) = {}
    BY DEF Tree!Init, Parents, Tree!In
  <2> QED
    BY <2>1, <2>2, <2>3, <2>4 DEF ForestInv, Tree!Acyclic
<1>2. TreeInv /\ ForestInv /\ [Tree!Next]_Tree!vars => ForestInv'
  <2> SUFFICES ASSUME TreeInv, ForestInv, [Tree!Next]_Tree!vars PROVE ForestInv'
    OBVIOUS
  <2>1. CASE \/ \E h \in SUBSET Devices : Tree!Filter(h)
             \/ \E on \in BOOLEAN, g \in Groups : Tree!Check(Tree!Subtree(g), on)
             \/ \E on \in BOOLEAN, d \in Devices : d \in Tree!Rows /\ Tree!Check({d}, on)
             \/ \E d \in Devices : Tree!DragDevice(d)
             \/ \E g \in Groups : Tree!DragGroup(g)
             \/ Tree!EndDrag \/ Tree!ReadGroups \/ Tree!ReadDevices
    BY <2>1, HandIsForest
  <2>2. CASE UNCHANGED Tree!vars
    <3>1. UNCHANGED treeVars
      BY <2>2 DEF Tree!vars, Tree!server, Tree!lists, Tree!hand, treeVars
    <3> QED
      BY <3>1, HandIsForest
  <2>3. CASE \/ \E g \in Groups : Tree!ToTop(g) \/ Tree!DeleteGroup(g)
             \/ \E to \in Tree!In(depts) \cup {Tree!None}, g \in Groups : Tree!CreateGroup(g, to)
    BY <2>3, StartedIsForest DEF Tree!ToTop, Tree!DeleteGroup, Tree!CreateGroup, Ops
  <2>4. CASE \/ \E d \in Devices : Tree!Ungroup(d)
             \/ \E to \in Tree!In(depts) \cup {Tree!None} : Tree!Drop(to) \/ Tree!BulkMove(to)
    BY <2>4, StartedIsForest DEF Tree!Ungroup, Tree!Drop, Tree!BulkMove, Ops
  <2>5. CASE \E i \in Tree!Id : Tree!ServeGroup(i) \/ Tree!Assign(i) \/ Tree!Done(i) \/ Tree!Failed(i)
    BY <2>5, ServedIsForest, EndedIsForest
  <2>6. CASE \E g \in Groups, d \in Devices : Tree!Other(g, d)
    BY <2>6, OthersLeaveAForest
  <2> QED
    BY <2>1, <2>2, <2>3, <2>4, <2>5, <2>6 DEF Tree!Next
<1> QED
    BY <1>1, <1>2, TreeInvariant, PTL DEF Tree!Spec

\* For any groups, devices and admins, at whatever instants the page has read its two lists:
\* every device that passes the filters has a row; and the server refuses no drop the page
\* allows, unless its groups have changed since the page read them.
THEOREM TreeStaysSound == Tree!Spec => []TreeIsSound
<1>1. ForestInv => Tree!EveryDeviceHasARow
  <2> SUFFICES ASSUME ForestInv, NEW d \in Tree!Shown
               PROVE  Tree!Known(d) \in Tree!Tree \cup {Tree!None}
    BY DEF Tree!EveryDeviceHasARow, Tree!Rows
  <2>1. CASE Tree!Known(d) \in Tree!In(depts)
    <3>1. PICK h \in Tree!Above(depts, Tree!Known(d)) : depts[h] \notin Tree!In(depts)
      BY <2>1, RootIsReached DEF ForestInv
    <3> QED
      BY <2>1, <3>1, AboveIsListed DEF Tree!Tree, Tree!Roots
  <2> QED
    BY <2>1 DEF Tree!Known
<1>2. TreeInv => Tree!AllowedDropsAreLegal
    BY DEF TreeInv, StaysLegal, Tree!AllowedDropsAreLegal
<1> QED
    BY <1>1, <1>2, TreeInvariant, ForestInvariant, PTL DEF TreeIsSound

=============================================================================
