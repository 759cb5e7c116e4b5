----------------------------- MODULE FleetProofs -----------------------------
(***************************************************************************)
(* What holds of the fleet for every number of cars and processes, every   *)
(* length of the day and every bound: whatever the thread, the processes   *)
(* and the operator of the site do, and wherever a process dies.           *)
(***************************************************************************)
EXTENDS Fleet, FiniteSetTheorems, SequenceTheorems, TLAPS

\* What the thread relies on while it works, and what a crash in the middle leaves.
Files ==
    /\ thread.phase \in {"collecting", "keeping", "kept"} => disk.main = thread.current
    /\ thread.phase \in {"kept", "writing"} => disk.previous = thread.current
    /\ thread.phase = "writing" => disk.main = Torn
    /\ LastGoodKept

\* How late the thread may wake, by what is on disk or by its last attempt.
Timing ==
    /\ thread.phase \in {"collecting", "keeping", "kept", "writing"} =>
          tried = thread.taken /\ thread.taken <= clock /\ clock <= thread.taken + 1
    /\ thread.phase = "sleeping" =>
          \/ thread.wake <= clock
          \/ disk.main # Torn /\ disk.main.taken # None /\ thread.wake <= disk.main.taken + Day + 1
          \/ tried # None /\ thread.wake <= tried + 2

\* What a turn of the web process has read is the fleet on disk; or, just when that
\* was replaced, the one before.
Reading ==
    loading[Web] # None =>
        \/ thread.phase # "writing" /\ disk.main # Torn /\ loading[Web] = disk.main.cars
        \/ /\ disk.previous \notin {Torn, Missing} /\ loading[Web] = disk.previous.cars
           /\ \/ thread.phase = "writing"
              \/ thread.phase = "sleeping" /\ clock < thread.wake

IInv == TypeOK /\ Files /\ Timing /\ Reading /\ ServedIsRecent

-----------------------------------------------------------------------------
(* Fleets: the sequences of cars in which no car is listed twice *)

\* A sequence without repetition is no longer than there are cars, so it is a fleet.
LEMMA FleetSequence ==
  ASSUME NEW f \in Seq(Cars), \A i, j \in DOMAIN f : f[i] = f[j] => i = j
  PROVE  f \in Fleets
<1> DEFINE n == Len(f)
<1>1. n \in Nat /\ f \in [1 .. n -> Cars] /\ DOMAIN f = 1 .. n
  BY LenProperties
<1>2. Cardinality(1 .. n) = n /\ IsFiniteSet(1 .. n)
  <2>1. 1 \in Int /\ n \in Int
    BY <1>1
  <2>2. IsFiniteSet(1 .. n) /\ Cardinality(1 .. n) = IF 1 > n THEN 0 ELSE n - 1 + 1
    BY <2>1, FS_Interval
  <2> QED  BY <1>1, <2>2
<1>3. f \in Injection(1 .. n, Cars)
  BY <1>1 DEF Injection, IsInjective
<1>4. IsFiniteSet(Cars)
  BY FleetAssumption DEF FleetAssumption
<1>5. Cardinality(1 .. n) <= Cardinality(Cars) /\ Cardinality(Cars) \in Nat
  <2>1. Cardinality(1 .. n) <= Cardinality(Cars)
    BY <1>3, <1>4, FS_Injection
  <2> QED  BY <1>4, <2>1, FS_CardinalityType
<1>6. n \in 0 .. Cardinality(Cars)
  BY <1>1, <1>2, <1>5
<1> QED  BY <1>1, <1>6 DEF Fleets

LEMMA FleetIsSequence ==
  ASSUME NEW f \in Fleets
  PROVE  /\ f \in Seq(Cars) /\ Len(f) \in Nat /\ DOMAIN f = 1 .. Len(f)
         /\ \A i, j \in DOMAIN f : f[i] = f[j] => i = j
<1>0. IsFiniteSet(Cars)
  BY FleetAssumption DEF FleetAssumption
<1>1. Cardinality(Cars) \in Nat
  BY <1>0, FS_CardinalityType
<1>2. PICK n \in 0 .. Cardinality(Cars) : f \in [1 .. n -> Cars]
  BY DEF Fleets
<1>3. f \in Seq(Cars)
  <2>1. n \in Nat
    BY <1>1
  <2> QED  BY <1>2, <2>1, SeqDef
<1>4. Len(f) \in Nat /\ DOMAIN f = 1 .. Len(f)
  BY <1>3, LenProperties
<1> QED  BY <1>3, <1>4 DEF Fleets

\* A car that is not listed may be listed first.
LEMMA ListedFirst ==
  ASSUME NEW f \in Fleets, NEW car \in Cars, \A i \in DOMAIN f : f[i] # car
  PROVE  <<car>> \o f \in Fleets
<1> DEFINE g == <<car>> \o f
<1>1. f \in Seq(Cars) /\ Len(f) \in Nat /\ DOMAIN f = 1 .. Len(f)
      /\ \A i, j \in DOMAIN f : f[i] = f[j] => i = j
  BY FleetIsSequence
<1>2. <<car>> \in Seq(Cars) /\ Len(<<car>>) = 1 /\ <<car>>[1] = car
  OBVIOUS
<1>3. /\ g \in Seq(Cars) /\ Len(g) = 1 + Len(f)
      /\ \A i \in 1 .. 1 + Len(f) : g[i] = IF i <= 1 THEN <<car>>[i] ELSE f[i - 1]
  BY <1>1, <1>2, ConcatProperties
<1>4. DOMAIN g = 1 .. 1 + Len(f)
  BY <1>3, LenProperties
<1> HIDE DEF g
<1>5. g[1] = car /\ \A i \in 2 .. 1 + Len(f) : g[i] = f[i - 1] /\ i - 1 \in DOMAIN f
  BY <1>1, <1>2, <1>3
<1>6. ASSUME NEW i \in DOMAIN g, NEW j \in DOMAIN g, g[i] = g[j]
      PROVE  i = j
  <2>1. CASE i = 1
    BY <1>1, <1>4, <1>5, <1>6, <2>1
  <2>2. CASE j = 1
    BY <1>1, <1>4, <1>5, <1>6, <2>2
  <2>3. CASE i # 1 /\ j # 1
    <3>1. i \in 2 .. 1 + Len(f) /\ j \in 2 .. 1 + Len(f)
      BY <1>1, <1>4, <2>3
    <3>2. i - 1 = j - 1
      BY <1>1, <1>5, <1>6, <3>1
    <3> QED  BY <1>1, <3>1, <3>2
  <2> QED  BY <2>1, <2>2, <2>3
<1>7. g \in Fleets
  BY <1>3, <1>6, FleetSequence
<1> QED  BY <1>7 DEF g

\* A fleet without one of its cars is a fleet.
LEMMA OneLess ==
  ASSUME NEW f \in Fleets, NEW k \in DOMAIN f
  PROVE  SubSeq(f, 1, k - 1) \o SubSeq(f, k + 1, Len(f)) \in Fleets
<1> DEFINE a == SubSeq(f, 1, k - 1)
           b == SubSeq(f, k + 1, Len(f))
           g == a \o b
<1>1. f \in Seq(Cars) /\ Len(f) \in Nat /\ DOMAIN f = 1 .. Len(f)
      /\ \A i, j \in DOMAIN f : f[i] = f[j] => i = j
  BY FleetIsSequence
<1>2. k \in 1 .. Len(f) /\ k - 1 \in 0 .. Len(f) /\ k + 1 \in 1 .. Len(f) + 1
  BY <1>1
<1>3. a \in Seq(Cars) /\ Len(a) = k - 1 /\ \A i \in 1 .. k - 1 : a[i] = f[i]
  <2>1. a \in Seq(Cars) /\ Len(a) = (IF 1 <= k - 1 THEN k - 1 - 1 + 1 ELSE 0)
        /\ \A i \in 1 .. k - 1 - 1 + 1 : a[i] = f[1 + i - 1]
    BY <1>1, <1>2, SubSeqProperties
  <2> HIDE DEF a
  <2>2. Len(a) = k - 1
    BY <1>2, <2>1
  <2>3. ASSUME NEW i \in 1 .. k - 1  PROVE a[i] = f[i]
    <3>1. i \in 1 .. k - 1 - 1 + 1 /\ 1 + i - 1 = i
      BY <1>2
    <3> QED  BY <2>1, <3>1
  <2> QED  BY <2>1, <2>2, <2>3
<1>4. b \in Seq(Cars) /\ Len(b) = Len(f) - k /\ \A i \in 1 .. Len(f) - k : b[i] = f[i + k]
  <2>1. b \in Seq(Cars) /\ Len(b) = (IF k + 1 <= Len(f) THEN Len(f) - (k + 1) + 1 ELSE 0)
        /\ \A i \in 1 .. Len(f) - (k + 1) + 1 : b[i] = f[k + 1 + i - 1]
    BY <1>1, <1>2, SubSeqProperties
  <2> HIDE DEF b
  <2>2. Len(b) = Len(f) - k
    BY <1>1, <1>2, <2>1
  <2>3. ASSUME NEW i \in 1 .. Len(f) - k  PROVE b[i] = f[i + k]
    <3>1. i \in 1 .. Len(f) - (k + 1) + 1 /\ k + 1 + i - 1 = i + k
      BY <1>1, <1>2
    <3> QED  BY <2>1, <3>1
  <2> QED  BY <2>1, <2>2, <2>3
<1> HIDE DEF a, b
<1>5. /\ g \in Seq(Cars) /\ Len(g) = Len(a) + Len(b)
      /\ \A i \in 1 .. Len(a) + Len(b) : g[i] = IF i <= Len(a) THEN a[i] ELSE b[i - Len(a)]
  BY <1>3, <1>4, ConcatProperties
<1>6. DOMAIN g = 1 .. Len(f) - 1 /\ Len(a) + Len(b) = Len(f) - 1
  <2>1. DOMAIN g = 1 .. Len(g)
    BY <1>5, LenProperties
  <2>2. Len(a) + Len(b) = Len(f) - 1
    BY <1>1, <1>2, <1>3, <1>4
  <2> QED  BY <1>5, <2>1, <2>2
<1> HIDE DEF g
<1> DEFINE place(i) == IF i < k THEN i ELSE i + 1
<1>7. ASSUME NEW i \in DOMAIN g
      PROVE  g[i] = f[place(i)] /\ place(i) \in DOMAIN f
  <2>1. CASE i < k
    <3>1. g[i] = a[i]
      BY <1>1, <1>2, <1>3, <1>4, <1>5, <1>6, <2>1
    <3>2. i \in 1 .. k - 1
      BY <1>1, <1>2, <1>6, <2>1
    <3> QED  BY <1>1, <1>2, <1>3, <1>6, <2>1, <3>1, <3>2
  <2>2. CASE ~(i < k)
    <3>1. g[i] = b[i - (k - 1)]
      BY <1>1, <1>2, <1>3, <1>4, <1>5, <1>6, <2>2
    <3>2. i - (k - 1) \in 1 .. Len(f) - k /\ i - (k - 1) + k = i + 1
      BY <1>1, <1>2, <1>6, <2>2
    <3>3. b[i - (k - 1)] = f[i + 1]
      BY <1>4, <3>2
    <3> QED  BY <1>1, <1>2, <1>6, <2>2, <3>1, <3>3
  <2> QED  BY <2>1, <2>2
<1>8. ASSUME NEW i \in DOMAIN g, NEW j \in DOMAIN g, g[i] = g[j]
      PROVE  i = j
  <2>1. place(i) = place(j)
    BY <1>1, <1>7, <1>8
  <2> QED  BY <1>1, <1>2, <1>6, <2>1
<1>9. g \in Fleets
  BY <1>5, <1>8, FleetSequence
<1> QED  BY <1>9 DEF g, a, b

-----------------------------------------------------------------------------
(* Times, files and threads *)

\* A nightly run is within a day, and no later than the one an hour on.
LEMMA NightlyRun ==
  ASSUME NEW c \in Nat
  PROVE  /\ PreviousFire(c) \in Nat /\ NextFire(c) \in Nat
         /\ c < NextFire(c) /\ NextFire(c) <= c + Day /\ NextFire(c) <= NextFire(c + 1)
<1> DEFINE q == c \div Day
           r == (c + 1) \div Day
<1>1. Day \in Nat /\ Day > 1
  BY FleetAssumption DEF FleetAssumption
<1>2. q \in Nat /\ c % Day \in 0 .. Day - 1 /\ c = Day * q + (c % Day)
  BY <1>1
<1>3. r \in Nat /\ (c + 1) % Day \in 0 .. Day - 1 /\ c + 1 = Day * r + ((c + 1) % Day)
  BY <1>1
<1> HIDE DEF q, r
<1>4. Day * q \in Nat /\ Day * r \in Nat
  BY <1>1, <1>2, <1>3
<1>5. q <= r
  <2>1. CASE r <= q - 1
    <3>1. Day * r <= Day * (q - 1)
      BY <1>1, <1>2, <1>3, <2>1
    <3>2. Day * (q - 1) = Day * q - Day
      BY <1>1, <1>2
    <3> QED  BY <1>1, <1>2, <1>3, <1>4, <3>1, <3>2
  <2> QED  BY <1>2, <1>3, <2>1
<1>6. Day * q <= Day * r
  BY <1>1, <1>2, <1>3, <1>5
<1>7. PreviousFire(c) = Day * q /\ PreviousFire(c + 1) = Day * r
  BY <1>1, <1>2, <1>3, <1>4 DEF PreviousFire
<1> QED  BY <1>1, <1>2, <1>3, <1>4, <1>6, <1>7 DEF NextFire

LEMMA ThreadShape ==
  ASSUME NEW t \in Threads
  PROVE  /\ t.phase \in {"down", "sleeping", "collecting", "keeping", "kept", "writing"}
         /\ t.phase = "sleeping" => t.wake \in Nat
         /\ t.phase = "collecting" =>
               t.taken \in 0 .. MaxClock /\ t.current \in Snapshots /\ t.listed \in Fleets
         /\ t.phase \in {"keeping", "kept", "writing"} =>
               /\ t.taken \in 0 .. MaxClock /\ t.current \in Snapshots /\ t.new \in Fleets
               /\ t \in [phase: {"keeping", "kept", "writing"}, taken: 0 .. MaxClock,
                         current: Snapshots, new: Fleets]
<1>1. CASE t \in [phase: {"down"}]
  BY <1>1
<1>2. CASE t \in [phase: {"sleeping"}, wake: Nat]
  BY <1>2
<1>3. CASE t \in [phase: {"collecting"}, taken: 0 .. MaxClock, current: Snapshots, listed: Fleets]
  BY <1>3
<1>4. CASE t \in [phase: {"keeping", "kept", "writing"}, taken: 0 .. MaxClock,
                  current: Snapshots, new: Fleets]
  BY <1>4
<1> QED  BY <1>1, <1>2, <1>3, <1>4 DEF Threads

LEMMA Slept ==
  ASSUME NEW w \in Nat
  PROVE  Sleeping(w) \in Threads /\ Sleeping(w).phase = "sleeping" /\ Sleeping(w).wake = w
BY DEF Sleeping, Threads

\* A whole file is neither torn nor missing.
LEMMA WholeFile ==
  ASSUME NEW s \in Snapshots
  PROVE  /\ s \notin {Torn, Missing} /\ s.cars \in Fleets
         /\ s.taken \in (0 .. MaxClock) \cup {None}
BY FileAssumption DEF FileAssumption, Snapshots

LEMMA Bounds ==
  /\ Web \in Processes /\ Day \in Nat /\ Day > 1 /\ MaxClock \in Nat /\ MaxClock > 0
  /\ MaxChanges \in Nat /\ None \notin Cars /\ None \notin Nat
BY FleetAssumption DEF FleetAssumption
-----------------------------------------------------------------------------
(* The steps *)

\* The site, the quote and the booking are in no other part of the invariant.
LEMMA Beside ==
  ASSUME IInv, TypeOK', UNCHANGED <<clock, disk, thread, tried, up, cache, loading>>
  PROVE  IInv'
BY DEF IInv, Files, Timing, Reading, ServedIsRecent, LastGoodKept

LEMMA ListsKeeps ==
  ASSUME IInv, NEW car \in Cars, Lists(car)
  PROVE  IInv'
<1>1. site' \in Fleets
  BY ListedFirst DEF Lists, IInv, TypeOK
<1>2. changes' \in 0 .. MaxChanges
  BY Bounds DEF Lists, IInv, TypeOK
<1>3. UNCHANGED <<clock, disk, thread, tried, up, cache, loading, quote, booked>>
  BY DEF Lists
<1>4. TypeOK'
  BY <1>1, <1>2, <1>3 DEF IInv, TypeOK
<1> QED  BY <1>3, <1>4, Beside

LEMMA DelistsKeeps ==
  ASSUME IInv, NEW car \in Cars, Delists(car)
  PROVE  IInv'
<1>1. site' \in Fleets
  BY OneLess DEF Delists, IInv, TypeOK
<1>2. changes' \in 0 .. MaxChanges
  BY Bounds DEF Delists, IInv, TypeOK
<1>3. UNCHANGED <<clock, disk, thread, tried, up, cache, loading, quote, booked>>
  BY DEF Delists
<1>4. TypeOK'
  BY <1>1, <1>2, <1>3 DEF IInv, TypeOK
<1> QED  BY <1>3, <1>4, Beside

\* A process serves cars, and ids within the fleet.
LEMMA Served ==
  ASSUME TypeOK, NEW p \in Processes, NEW id, Vehicle(p, id) # None
  PROVE  Vehicle(p, id) \in Cars /\ id \in Ids
<1>1. cache[p] # None /\ id \in DOMAIN cache[p] /\ Vehicle(p, id) = cache[p][id]
  BY DEF Vehicle
<1>2. cache[p] \in Fleets
  BY <1>1 DEF TypeOK
<1>3. PICK n \in 0 .. Cardinality(Cars) : cache[p] \in [1 .. n -> Cars]
  BY <1>2 DEF Fleets
<1>4. Cardinality(Cars) \in Nat
  <2>1. IsFiniteSet(Cars)
    BY FleetAssumption DEF FleetAssumption
  <2> QED  BY <2>1, FS_CardinalityType
<1>5. id \in 1 .. n /\ cache[p][id] \in Cars
  BY <1>1, <1>3
<1> QED  BY <1>1, <1>3, <1>4, <1>5 DEF Ids

LEMMA QuotesKeeps ==
  ASSUME IInv, NEW p \in Processes, NEW id \in Ids, Quotes(p, id)
  PROVE  IInv'
<1>1. quote' \in [id: Ids, car: Cars]
  BY Served DEF Quotes, IInv
<1>2. UNCHANGED <<clock, site, changes, disk, thread, tried, up, cache, loading, booked>>
  BY DEF Quotes
<1>3. TypeOK'
  BY <1>1, <1>2 DEF IInv, TypeOK
<1> QED  BY <1>2, <1>3, Beside

LEMMA BooksKeeps ==
  ASSUME IInv, NEW p \in Processes, Books(p)
  PROVE  IInv'
<1>1. booked' \in Cars
  BY Served DEF Books, IInv
<1>2. UNCHANGED <<clock, site, changes, disk, thread, tried, up, cache, loading, quote>>
  BY DEF Books
<1>3. TypeOK'
  BY <1>1, <1>2 DEF IInv, TypeOK
<1> QED  BY <1>2, <1>3, Beside

\* Nobody is reading while time passes, and no thread that is due lets it.
LEMMA TickKeeps ==
  ASSUME IInv, Tick
  PROVE  IInv'
<1>1. /\ clock \in Nat /\ clock' = clock + 1 /\ clock' \in 0 .. MaxClock /\ loading[Web] = None
      /\ UNCHANGED <<site, changes, disk, thread, tried, up, cache, loading, quote, booked>>
  BY Bounds DEF Tick, IInv, TypeOK
<1>2. TypeOK'
  <2>1. NextFire(clock) <= NextFire(clock') /\ NextFire(clock) \in Nat /\ NextFire(clock') \in Nat
    BY <1>1, NightlyRun
  <2>2. (thread.phase = "sleeping" => thread.wake <= NextFire(clock))'
    BY <1>1, <2>1, ThreadShape DEF IInv, TypeOK
  <2> QED  BY <1>1, <2>2 DEF IInv, TypeOK
<1>3. Files'
  BY <1>1 DEF IInv, Files, LastGoodKept
<1>4. Timing'
  <2>1. thread.phase \in {"down", "sleeping", "collecting"}
    BY DEF Tick
  <2>2. CASE thread.phase = "down"
    BY <1>1, <2>2 DEF Timing
  <2>3. CASE thread.phase = "sleeping"
    <3>1. thread.wake \in Nat /\ clock < thread.wake
      BY <2>3, ThreadShape DEF Tick, IInv, TypeOK
    <3>2. ~(thread.wake <= clock)
      BY <1>1, <3>1
    <3>3. \/ disk.main # Torn /\ disk.main.taken # None /\ thread.wake <= disk.main.taken + Day + 1
          \/ tried # None /\ thread.wake <= tried + 2
      BY <2>3, <3>2 DEF IInv, Timing
    <3> QED  BY <1>1, <2>3, <3>3 DEF Timing
  <2>4. CASE thread.phase = "collecting"
    <3>1. thread.taken \in Nat /\ clock = thread.taken /\ tried = thread.taken
      BY <2>4, ThreadShape, Bounds DEF Tick, IInv, TypeOK, Timing
    <3>2. thread.taken <= clock + 1 /\ clock + 1 <= thread.taken + 1
      BY <1>1, <3>1
    <3> QED  BY <1>1, <2>4, <3>1, <3>2 DEF Timing
  <2> QED  BY <2>1, <2>2, <2>3, <2>4
<1>5. Reading' /\ ServedIsRecent'
  BY <1>1 DEF IInv, Reading, ServedIsRecent
<1> QED  BY <1>2, <1>3, <1>4, <1>5 DEF IInv
\* A file that does not parse is tried again; any other is what the thread works from.
LEMMA SetsOutKeeps ==
  ASSUME IInv, SetsOut
  PROVE  IInv'
<1>1. /\ thread.phase = "sleeping" /\ thread.wake <= clock /\ tried' = clock /\ clock \in 0 .. MaxClock
      /\ clock \in Nat
      /\ UNCHANGED <<clock, site, changes, disk, up, cache, loading, quote, booked>>
  BY Bounds DEF SetsOut, IInv, TypeOK
<1>2. thread.wake \in Nat /\ ~(clock < thread.wake)
  BY <1>1, ThreadShape DEF IInv, TypeOK
<1>3. CASE disk.main = Torn
  <2>1. thread' = Sleeping(clock + 1)
    BY <1>3 DEF SetsOut, Retry
  <2>2. thread' \in Threads /\ thread'.phase = "sleeping" /\ thread'.wake = clock + 1
    BY <1>1, <2>1, Slept
  <2>3. clock + 1 <= NextFire(clock)
    BY <1>1, NightlyRun
  <2>4. TypeOK'
    BY <1>1, <2>2, <2>3 DEF IInv, TypeOK, NextFire, PreviousFire
  <2>5. Files'
    BY <1>1, <2>2 DEF IInv, Files, LastGoodKept
  <2>6. Timing'
    BY <1>1, <2>2, Bounds DEF Timing
  <2>7. Reading' /\ ServedIsRecent'
    BY <1>1, <1>2, <1>3, <2>2 DEF IInv, Reading, ServedIsRecent
  <2> QED  BY <2>4, <2>5, <2>6, <2>7 DEF IInv
<1>4. CASE disk.main # Torn
  <2>1. thread' = [phase |-> "collecting", taken |-> clock, current |-> disk.main, listed |-> site]
    BY <1>4 DEF SetsOut
  <2>2. /\ thread'.phase = "collecting" /\ thread'.taken = clock /\ thread'.current = disk.main
    BY <2>1
  <2>3. disk.main \in Snapshots /\ site \in Fleets
    BY <1>4 DEF IInv, TypeOK
  <2>4. thread' \in Threads
    BY <1>1, <2>1, <2>3 DEF Threads
  <2>5. TypeOK'
    BY <1>1, <2>2, <2>4 DEF IInv, TypeOK
  <2>6. Files'
    BY <1>1, <2>2 DEF IInv, Files, LastGoodKept
  <2>7. Timing'
    BY <1>1, <2>2 DEF Timing
  <2>8. Reading' /\ ServedIsRecent'
    BY <1>1, <1>2, <1>4, <2>2 DEF IInv, Reading, ServedIsRecent
  <2> QED  BY <2>5, <2>6, <2>7, <2>8 DEF IInv
<1> QED  BY <1>3, <1>4

\* A collection that fails changes nothing but when the thread wakes.
LEMMA CollectFailsKeeps ==
  ASSUME IInv, CollectFails
  PROVE  IInv'
<1>1. /\ thread.phase = "collecting" /\ clock \in Nat /\ clock \in 0 .. MaxClock
      /\ UNCHANGED <<clock, site, changes, disk, tried, up, cache, loading, quote, booked>>
  BY Bounds DEF CollectFails, IInv, TypeOK
<1>2. thread' \in Threads /\ thread'.phase = "sleeping" /\ thread'.wake = clock + 1
  BY <1>1, Slept DEF CollectFails, Retry
<1>3. clock + 1 <= NextFire(clock)
  BY <1>1, NightlyRun
<1>4. TypeOK'
  BY <1>1, <1>2, <1>3 DEF IInv, TypeOK, NextFire, PreviousFire
<1>5. Files'
  BY <1>1, <1>2 DEF IInv, Files, LastGoodKept
<1>6. Timing'
  <2>1. thread.taken \in Nat /\ tried = thread.taken /\ clock <= thread.taken + 1
    BY <1>1, ThreadShape, Bounds DEF IInv, TypeOK, Timing
  <2>2. tried' # None /\ thread'.wake <= tried' + 2
    BY <1>1, <1>2, <2>1, Bounds
  <2> QED  BY <1>2, <2>2 DEF Timing
<1>7. Reading' /\ ServedIsRecent'
  BY <1>1, <1>2 DEF IInv, Reading, ServedIsRecent
<1> QED  BY <1>4, <1>5, <1>6, <1>7 DEF IInv

LEMMA CollectsKeeps ==
  ASSUME IInv, Collects
  PROVE  IInv'
<1>1. /\ thread.phase = "collecting" /\ disk' = [disk EXCEPT !.previous = Torn]
      /\ UNCHANGED <<clock, site, changes, tried, up, cache, loading, quote, booked>>
  BY DEF Collects, Keep
<1>2. /\ thread.taken \in 0 .. MaxClock /\ thread.current \in Snapshots /\ thread.listed \in Fleets
  BY <1>1, ThreadShape DEF IInv, TypeOK
<1>3. PICK new \in Fleets :
         thread' = [phase |-> "keeping", taken |-> thread.taken,
                    current |-> thread.current, new |-> new]
  BY <1>2 DEF Collects, Some
<1>4. /\ thread'.phase = "keeping" /\ thread'.taken = thread.taken
      /\ thread'.current = thread.current
  BY <1>3
<1>5. thread' \in Threads
  BY <1>2, <1>3 DEF Threads
<1>6. disk'.main = disk.main /\ disk' \in [main: Snapshots \cup {Torn}, previous: Snapshots \cup {Torn, Missing}]
  BY <1>1 DEF IInv, TypeOK
<1>7. TypeOK'
  BY <1>1, <1>4, <1>5, <1>6 DEF IInv, TypeOK
<1>8. disk.main = thread.current /\ disk.main # Torn
  BY <1>1, <1>2, WholeFile DEF IInv, Files
<1>9. Files'
  BY <1>4, <1>6, <1>8 DEF Files, LastGoodKept
<1>10. Timing'
  BY <1>1, <1>4 DEF IInv, Timing
<1>11. Reading' /\ ServedIsRecent'
  BY <1>1, <1>4, <1>6, <1>8 DEF IInv, Reading, ServedIsRecent
<1> QED  BY <1>7, <1>9, <1>10, <1>11 DEF IInv

\* The thread of a refresh that writes, one phase on.
LEMMA NextPhase ==
  ASSUME TypeOK, thread.phase \in {"keeping", "kept", "writing"},
         NEW ph \in {"keeping", "kept", "writing"}, thread' = [thread EXCEPT !.phase = ph]
  PROVE  /\ thread' \in Threads /\ thread'.phase = ph /\ thread'.taken = thread.taken
         /\ thread'.current = thread.current /\ thread.current \in Snapshots
<1>1. /\ thread \in [phase: {"keeping", "kept", "writing"}, taken: 0 .. MaxClock,
                     current: Snapshots, new: Fleets]
      /\ thread.current \in Snapshots
  BY ThreadShape DEF TypeOK
<1>2. thread' \in [phase: {"keeping", "kept", "writing"}, taken: 0 .. MaxClock,
                   current: Snapshots, new: Fleets]
  BY <1>1
<1> QED  BY <1>1, <1>2 DEF Threads

LEMMA KeptKeeps ==
  ASSUME IInv, Kept
  PROVE  IInv'
<1>1. /\ thread.phase = "keeping" /\ disk' = [disk EXCEPT !.previous = thread.current]
      /\ UNCHANGED <<clock, site, changes, tried, up, cache, loading, quote, booked>>
  BY DEF Kept
<1>2. /\ thread' \in Threads /\ thread'.phase = "kept" /\ thread'.taken = thread.taken
      /\ thread'.current = thread.current /\ thread.current \in Snapshots
  BY <1>1, NextPhase DEF Kept, IInv
<1>3. /\ disk'.main = disk.main /\ disk'.previous = thread.current
      /\ disk' \in [main: Snapshots \cup {Torn}, previous: Snapshots \cup {Torn, Missing}]
  BY <1>1, <1>2 DEF IInv, TypeOK
<1>4. TypeOK'
  BY <1>1, <1>2, <1>3 DEF IInv, TypeOK
<1>5. disk.main = thread.current /\ disk.main # Torn
  BY <1>1, <1>2, WholeFile DEF IInv, Files
<1>6. Files'
  BY <1>2, <1>3, <1>5 DEF Files, LastGoodKept
<1>7. Timing'
  BY <1>1, <1>2 DEF IInv, Timing
<1>8. Reading' /\ ServedIsRecent'
  BY <1>1, <1>2, <1>3, <1>5 DEF IInv, Reading, ServedIsRecent
<1> QED  BY <1>4, <1>6, <1>7, <1>8 DEF IInv

\* The fleet that is emptied is the one that was just kept.
LEMMA OverwritesKeeps ==
  ASSUME IInv, Overwrites
  PROVE  IInv'
<1>1. /\ thread.phase = "kept" /\ disk' = [disk EXCEPT !.main = Torn]
      /\ UNCHANGED <<clock, site, changes, tried, up, cache, loading, quote, booked>>
  BY DEF Overwrites
<1>2. /\ thread' \in Threads /\ thread'.phase = "writing" /\ thread'.taken = thread.taken
      /\ thread'.current = thread.current /\ thread.current \in Snapshots
  BY <1>1, NextPhase DEF Overwrites, IInv
<1>3. /\ disk'.main = Torn /\ disk'.previous = disk.previous
      /\ disk' \in [main: Snapshots \cup {Torn}, previous: Snapshots \cup {Torn, Missing}]
  BY <1>1 DEF IInv, TypeOK
<1>4. TypeOK'
  BY <1>1, <1>2, <1>3 DEF IInv, TypeOK
<1>5. /\ disk.main = thread.current /\ disk.previous = thread.current
      /\ disk.previous \notin {Torn, Missing}
  BY <1>1, <1>2, WholeFile DEF IInv, Files
<1>6. Files'
  BY <1>2, <1>3, <1>5 DEF Files, LastGoodKept
<1>7. Timing'
  BY <1>1, <1>2 DEF IInv, Timing
<1>8. Reading' /\ ServedIsRecent'
  BY <1>1, <1>2, <1>3, <1>5 DEF IInv, Reading, ServedIsRecent
<1> QED  BY <1>4, <1>6, <1>7, <1>8 DEF IInv

\* What the process served is dropped; a turn that was reading has the fleet that was kept.
LEMMA WrittenKeeps ==
  ASSUME IInv, Written
  PROVE  IInv'
<1>1. /\ thread.phase = "writing" /\ clock \in Nat
      /\ disk' = [disk EXCEPT !.main = [cars |-> thread.new, taken |-> thread.taken]]
      /\ cache' = [cache EXCEPT ![Web] = None]
      /\ UNCHANGED <<clock, site, changes, tried, up, loading, quote, booked>>
  BY Bounds DEF Written, Reloaded, IInv, TypeOK
<1>2. thread.taken \in 0 .. MaxClock /\ thread.taken \in Nat /\ thread.new \in Fleets
      /\ thread.current \in Snapshots
  BY <1>1, ThreadShape, Bounds DEF IInv, TypeOK
<1>3. NextFire(clock) \in Nat /\ clock < NextFire(clock) /\ NextFire(clock) <= clock + Day
  BY <1>1, NightlyRun
<1>4. thread' \in Threads /\ thread'.phase = "sleeping" /\ thread'.wake = NextFire(clock)
  BY <1>3, Slept DEF Written
<1> DEFINE written == [cars |-> thread.new, taken |-> thread.taken]
<1>5. written \in Snapshots /\ written.taken = thread.taken /\ written # Torn
  <2>1. written \in Snapshots
    BY <1>2 DEF Snapshots
  <2> QED  BY <2>1, WholeFile
<1> HIDE DEF written
<1>6. /\ disk'.main = written /\ disk'.previous = disk.previous
      /\ disk' \in [main: Snapshots \cup {Torn}, previous: Snapshots \cup {Torn, Missing}]
  <2>1. disk' = [disk EXCEPT !.main = written]
    BY <1>1 DEF written
  <2> QED  BY <1>5, <2>1 DEF IInv, TypeOK
<1>7. /\ cache' \in [Processes -> Fleets \cup {None}] /\ cache'[Web] = None
      /\ \A p \in Processes : cache'[p] = cache[p] \/ cache'[p] = None
  BY <1>1, Bounds DEF IInv, TypeOK
<1>8. TypeOK'
  <2>1. (thread.phase = "sleeping" => thread.wake <= NextFire(clock))'
    BY <1>1, <1>3, <1>4 DEF NextFire, PreviousFire
  <2> QED  BY <1>1, <1>4, <1>6, <1>7, <2>1 DEF IInv, TypeOK
<1>9. disk.previous = thread.current /\ disk.previous \notin {Torn, Missing}
  BY <1>1, <1>2, WholeFile DEF IInv, Files
<1>10. Files'
  BY <1>4, <1>5, <1>6, <1>9 DEF Files, LastGoodKept
<1>11. Timing'
  <2>1. clock <= thread.taken + 1
    BY <1>1 DEF IInv, Timing
  <2>2. thread'.wake <= disk'.main.taken + Day + 1
    BY <1>1, <1>2, <1>3, <1>4, <1>5, <1>6, <2>1, Bounds
  <2>3. disk'.main # Torn /\ disk'.main.taken # None
    BY <1>2, <1>5, <1>6, Bounds
  <2> QED  BY <1>4, <2>2, <2>3 DEF Timing
<1>12. Reading'
  <2>1. loading[Web] # None => disk.previous \notin {Torn, Missing} /\ loading[Web] = disk.previous.cars
    BY <1>1 DEF IInv, Reading
  <2>2. clock' < thread'.wake
    BY <1>1, <1>3, <1>4
  <2> QED  BY <1>1, <1>4, <1>6, <2>1, <2>2 DEF Reading
<1>13. ServedIsRecent'
  BY <1>7 DEF ServedIsRecent
<1> QED  BY <1>8, <1>10, <1>11, <1>12, <1>13 DEF IInv
\* A thread that starts wakes at once when a night was missed, by the next one when none was.
LEMMA BootKeeps ==
  ASSUME IInv, NEW p \in Processes, Boot(p)
  PROVE  IInv'
<1>1. /\ p \notin up /\ up' = up \cup {p} /\ clock \in Nat
      /\ UNCHANGED <<clock, site, changes, disk, tried, cache, loading, quote, booked>>
  BY Bounds DEF Boot, IInv, TypeOK
<1>2. CASE p # Web
  <2>1. thread' = thread
    BY <1>2 DEF Boot
  <2>2. TypeOK'
    BY <1>1, <1>2, <2>1 DEF IInv, TypeOK, NextFire, PreviousFire
  <2> QED  BY <1>1, <2>1, <2>2, Beside DEF IInv, Files, Timing, Reading, ServedIsRecent, LastGoodKept
<1>3. CASE p = Web
  <2>1. thread.phase = "down" /\ cache[Web] = None /\ loading[Web] = None
    BY <1>1, <1>3 DEF IInv, TypeOK
  <2> DEFINE w == IF Overdue THEN clock ELSE NextFire(clock)
  <2>2. thread' = Sleeping(w)
    BY <1>3 DEF Boot
  <2>3. /\ NextFire(clock) \in Nat /\ PreviousFire(clock) \in Nat
        /\ NextFire(clock) = PreviousFire(clock) + Day /\ clock <= NextFire(clock)
    BY <1>1, NightlyRun DEF NextFire
  <2>4. w \in Nat /\ w <= NextFire(clock)
    BY <1>1, <2>3
  <2>5. thread' \in Threads /\ thread'.phase = "sleeping" /\ thread'.wake = w
    BY <2>2, <2>4, Slept
  <2>6. TypeOK'
    <3>1. (thread.phase = "sleeping" => thread.wake <= NextFire(clock))'
      BY <1>1, <2>4, <2>5 DEF NextFire, PreviousFire
    <3>2. (thread.phase = "down" <=> Web \notin up)' /\ up' \subseteq Processes
      BY <1>1, <1>3, <2>5 DEF IInv, TypeOK
    <3>3. \A q \in Processes \ up' : cache[q] = None /\ loading[q] = None
      BY <1>1 DEF IInv, TypeOK
    <3> QED  BY <1>1, <2>5, <3>1, <3>2, <3>3 DEF IInv, TypeOK
  <2>7. Files'
    BY <1>1, <2>5 DEF IInv, Files, LastGoodKept
  <2>8. Timing'
    <3>1. CASE Overdue
      BY <1>1, <2>5, <3>1 DEF Timing
    <3>2. CASE ~Overdue
      <4>1. /\ disk.main # Torn /\ disk.main.taken # None
            /\ ~(disk.main.taken < PreviousFire(clock)) /\ thread'.wake = PreviousFire(clock) + Day
        BY <2>3, <2>5, <3>2 DEF Overdue
      <4>2. disk.main \in Snapshots
        BY <4>1 DEF IInv, TypeOK
      <4>3. disk.main.taken \in 0 .. MaxClock
        BY <4>1, <4>2, WholeFile
      <4>4. thread'.wake <= disk.main.taken + Day + 1
        BY <2>3, <4>1, <4>3, Bounds
      <4> QED  BY <1>1, <2>5, <4>1, <4>4 DEF Timing
    <3> QED  BY <3>1, <3>2
  <2>9. Reading' /\ ServedIsRecent'
    BY <1>1, <2>1 DEF Reading, ServedIsRecent
  <2> QED  BY <2>6, <2>7, <2>8, <2>9 DEF IInv
<1> QED  BY <1>2, <1>3

\* A process that dies forgets what it served; the files stay as they are.
LEMMA CrashKeeps ==
  ASSUME IInv, NEW p \in Processes, Crash(p)
  PROVE  IInv'
<1>1. /\ p \in up /\ up' = up \ {p}
      /\ cache' = [cache EXCEPT ![p] = None] /\ loading' = [loading EXCEPT ![p] = None]
      /\ UNCHANGED <<clock, site, changes, disk, tried, quote, booked>>
  BY DEF Crash
<1>2. /\ {cache', loading'} \subseteq [Processes -> Fleets \cup {None}]
      /\ cache'[p] = None /\ loading'[p] = None
      /\ \A q \in Processes \ {p} : cache'[q] = cache[q] /\ loading'[q] = loading[q]
  BY <1>1 DEF IInv, TypeOK
<1>3. \A q \in Processes \ up' : cache'[q] = None /\ loading'[q] = None
  BY <1>1, <1>2 DEF IInv, TypeOK
<1>4. CASE p = Web
  <2>1. thread' = [phase |-> "down"]
    BY <1>4 DEF Crash
  <2>2. thread' \in Threads /\ thread'.phase = "down"
    BY <2>1 DEF Threads
  <2>3. TypeOK'
    BY <1>1, <1>2, <1>3, <1>4, <2>2 DEF IInv, TypeOK
  <2>4. Files' /\ Timing'
    BY <1>1, <2>2 DEF IInv, Files, Timing, LastGoodKept
  <2>5. Reading' /\ ServedIsRecent'
    BY <1>2, <1>4 DEF Reading, ServedIsRecent
  <2> QED  BY <2>3, <2>4, <2>5 DEF IInv
<1>5. CASE p # Web
  <2>1. thread' = thread /\ cache'[Web] = cache[Web] /\ loading'[Web] = loading[Web]
    BY <1>2, <1>5, Bounds DEF Crash
  <2>2. TypeOK'
    BY <1>1, <1>2, <1>3, <1>5, <2>1 DEF IInv, TypeOK, NextFire, PreviousFire
  <2>3. Files' /\ Timing'
    BY <1>1, <2>1 DEF IInv, Files, Timing, LastGoodKept
  <2>4. Reading' /\ ServedIsRecent'
    BY <1>1, <2>1 DEF IInv, Reading, ServedIsRecent
  <2> QED  BY <2>2, <2>3, <2>4 DEF IInv
<1> QED  BY <1>4, <1>5

LEMMA ReadsKeeps ==
  ASSUME IInv, NEW p \in Processes, Reads(p)
  PROVE  IInv'
<1>1. /\ p \in up /\ cache[p] = None /\ disk.main # Torn
      /\ loading' = [loading EXCEPT ![p] = disk.main.cars]
      /\ UNCHANGED <<clock, site, changes, disk, thread, tried, up, cache, quote, booked>>
  BY DEF Reads
<1>2. disk.main \in Snapshots
  BY <1>1 DEF IInv, TypeOK
<1>3. disk.main.cars \in Fleets
  BY <1>2, WholeFile
<1>4. /\ loading' \in [Processes -> Fleets \cup {None}] /\ loading'[p] = disk.main.cars
      /\ \A q \in Processes \ {p} : loading'[q] = loading[q]
  BY <1>1, <1>3 DEF IInv, TypeOK
<1>5. TypeOK'
  BY <1>1, <1>4 DEF IInv, TypeOK, NextFire, PreviousFire
<1>6. Files' /\ Timing' /\ ServedIsRecent'
  BY <1>1 DEF IInv, Files, Timing, LastGoodKept, ServedIsRecent
<1>7. Reading'
  <2>1. CASE p = Web
    <3>1. thread.phase # "writing"
      BY <1>1 DEF IInv, Files, TypeOK, Reading
    <3> QED  BY <1>1, <1>4, <2>1, <3>1 DEF Reading
  <2>2. CASE p # Web
    BY <1>1, <1>4, <2>2, Bounds DEF IInv, Reading
  <2> QED  BY <2>1, <2>2
<1> QED  BY <1>5, <1>6, <1>7 DEF IInv
\* What a turn keeps is what it read, even when the fleet was replaced meanwhile.
LEMMA CachesKeeps ==
  ASSUME IInv, NEW p \in Processes, Caches(p)
  PROVE  IInv'
<1>1. /\ loading[p] # None
      /\ cache' = [cache EXCEPT ![p] = loading[p]] /\ loading' = [loading EXCEPT ![p] = None]
      /\ UNCHANGED <<clock, site, changes, disk, thread, tried, up, quote, booked>>
  BY DEF Caches
<1>2. /\ {cache', loading'} \subseteq [Processes -> Fleets \cup {None}]
      /\ cache'[p] = loading[p] /\ loading'[p] = None
      /\ \A q \in Processes \ {p} : cache'[q] = cache[q] /\ loading'[q] = loading[q]
  BY <1>1 DEF IInv, TypeOK
<1>3. TypeOK'
  <2>1. p \in up
    BY <1>1 DEF IInv, TypeOK
  <2>2. \A q \in Processes \ up : cache'[q] = None /\ loading'[q] = None
    BY <1>2, <2>1 DEF IInv, TypeOK
  <2> QED  BY <1>1, <1>2, <2>2 DEF IInv, TypeOK, NextFire, PreviousFire
<1>4. Files' /\ Timing'
  BY <1>1 DEF IInv, Files, Timing, LastGoodKept
<1>5. CASE p = Web
  <2>1. Reading'
    BY <1>2, <1>5 DEF Reading
  <2>2. ServedIsRecent'
    <3>1. SUFFICES ASSUME thread.phase \in {"sleeping", "collecting"}
                   PROVE  \E file \in {disk.main, disk.previous} \ {Torn, Missing} :
                             loading[Web] = file.cars
      BY <1>1, <1>2, <1>5 DEF ServedIsRecent
    <3>2. CASE disk.main # Torn /\ loading[Web] = disk.main.cars
      <4>1. disk.main \in Snapshots
        BY <3>2 DEF IInv, TypeOK
      <4>2. disk.main \notin {Torn, Missing}
        BY <4>1, WholeFile
      <4> QED  BY <3>2, <4>2
    <3>3. CASE disk.previous \notin {Torn, Missing} /\ loading[Web] = disk.previous.cars
      BY <3>3
    <3> QED  BY <1>1, <1>5, <3>1, <3>2, <3>3 DEF IInv, Reading
  <2> QED  BY <1>3, <1>4, <2>1, <2>2 DEF IInv
<1>6. CASE p # Web
  <2>1. cache'[Web] = cache[Web] /\ loading'[Web] = loading[Web]
    BY <1>2, <1>6, Bounds
  <2>2. Reading' /\ ServedIsRecent'
    BY <1>1, <2>1 DEF IInv, Reading, ServedIsRecent
  <2> QED  BY <1>3, <1>4, <2>2 DEF IInv
<1> QED  BY <1>5, <1>6

-----------------------------------------------------------------------------
(* The invariant *)

LEMMA InitInv == Init => IInv
<1> SUFFICES ASSUME Init  PROVE IInv
  OBVIOUS
<1> DEFINE byHand == [cars |-> site, taken |-> None]
<1>1. byHand \in Snapshots
  BY DEF Init, Snapshots
<1>2. byHand # Torn
  BY <1>1, WholeFile
<1> HIDE DEF byHand
<1>3. disk = [main |-> byHand, previous |-> Missing]
  BY DEF Init, byHand
<1>4. thread \in Threads /\ thread.phase = "down"
  BY DEF Init, Threads
<1>5. TypeOK
  BY <1>1, <1>3, <1>4, Bounds DEF Init, TypeOK
<1>6. Files /\ Timing
  BY <1>2, <1>3, <1>4 DEF Init, Files, Timing, LastGoodKept
<1>7. Reading /\ ServedIsRecent
  BY Bounds DEF Init, Reading, ServedIsRecent
<1> QED  BY <1>5, <1>6, <1>7 DEF IInv

LEMMA NextInv == IInv /\ [Next]_vars => IInv'
<1> SUFFICES ASSUME IInv, [Next]_vars  PROVE IInv'
  OBVIOUS
<1>1. CASE Tick
  BY <1>1, TickKeeps
<1>2. ASSUME NEW car \in Cars, Lists(car) \/ Delists(car)
      PROVE  IInv'
  BY <1>2, ListsKeeps, DelistsKeeps
<1>3. CASE SetsOut
  BY <1>3, SetsOutKeeps
<1>4. CASE Collects
  BY <1>4, CollectsKeeps
<1>5. CASE CollectFails
  BY <1>5, CollectFailsKeeps
<1>6. CASE Kept
  BY <1>6, KeptKeeps
<1>7. CASE Overwrites
  BY <1>7, OverwritesKeeps
<1>8. CASE Written
  BY <1>8, WrittenKeeps
<1>9. ASSUME NEW p \in Processes, Boot(p) \/ Crash(p) \/ Reads(p) \/ Caches(p) \/ Books(p)
      PROVE  IInv'
  BY <1>9, BootKeeps, CrashKeeps, ReadsKeeps, CachesKeeps, BooksKeeps
<1>10. ASSUME NEW p \in Processes, NEW id \in Ids, Quotes(p, id)
       PROVE  IInv'
  BY <1>10, QuotesKeeps
<1>11. CASE UNCHANGED vars
  <2>1. UNCHANGED <<clock, site, changes, disk, thread, tried, up, cache, loading, quote, booked>>
    BY <1>11 DEF vars
  <2>2. TypeOK'
    BY <2>1 DEF IInv, TypeOK, NextFire, PreviousFire
  <2> QED  BY <2>1, <2>2, Beside
<1> QED  BY <1>1, <1>2, <1>3, <1>4, <1>5, <1>6, <1>7, <1>8, <1>9, <1>10, <1>11 DEF Next

LEMMA Invariant == Spec => []IInv
BY InitInv, NextInv, PTL DEF Spec

-----------------------------------------------------------------------------
(* What follows from it *)

\* Every file, thread and process is in a state the code can tell what to do with; in
\* particular, no thread sleeps past the nightly run.
THEOREM FleetTypeCorrect == Spec => []TypeOK
<1>1. IInv => TypeOK
  BY DEF IInv
<1> QED  BY <1>1, Invariant, PTL

\* Wherever the process dies, one of the two files is a whole fleet (refresh_once).
THEOREM OneFileIsWhole == Spec => []LastGoodKept
<1>1. IInv => LastGoodKept
  BY DEF IInv, Files
<1> QED  BY <1>1, Invariant, PTL

\* A fleet older than a day was tried again within the hour, while the thread runs:
\* through restarts, failed attempts and attempts that run past the nightly run.
THEOREM NoNightIsMissed == Spec => []StaleIsTried
<1>1. ASSUME IInv, thread.phase = "sleeping", clock < thread.wake
      PROVE  \/ disk.main # Torn /\ disk.main.taken # None /\ clock <= disk.main.taken + Day
             \/ tried # None /\ clock <= tried + 1
  <2>1. thread.wake \in Nat /\ clock \in Nat
    BY <1>1, ThreadShape, Bounds DEF IInv, TypeOK
  <2>2. CASE disk.main # Torn /\ disk.main.taken # None /\ thread.wake <= disk.main.taken + Day + 1
    <3>1. disk.main \in Snapshots
      BY <1>1, <2>2 DEF IInv, TypeOK
    <3>2. disk.main.taken \in Nat
      BY <2>2, <3>1, WholeFile, Bounds
    <3> QED  BY <1>1, <2>1, <2>2, <3>2, Bounds
  <2>3. CASE tried # None /\ thread.wake <= tried + 2
    <3>1. tried \in Nat
      BY <1>1, <2>3, Bounds DEF IInv, TypeOK
    <3> QED  BY <1>1, <2>1, <2>3, <3>1
  <2>4. ~(thread.wake <= clock)
    BY <1>1, <2>1
  <2> QED  BY <1>1, <2>2, <2>3, <2>4 DEF IInv, Timing
<1>2. IInv => StaleIsTried
  BY <1>1 DEF StaleIsTried
<1> QED  BY <1>2, Invariant, PTL

\* Between refreshes the web process serves the fleet on disk, or the one before it when
\* a turn was reading just as it was replaced (config.reload).
THEOREM ServedIsOnDisk == Spec => []ServedIsRecent
<1>1. IInv => ServedIsRecent
  BY DEF IInv
<1> QED  BY <1>1, Invariant, PTL
=============================================================================
