-------------------------------- MODULE Fleet --------------------------------
(***************************************************************************)
(* The fleet the agent quotes from: a snapshot of the operator's site,     *)
(* taken every night by a thread of the web process (sources/refresh.py,   *)
(* sources/delta.py), validated, written beside the one it replaces, and   *)
(* kept in memory by every process that answers customers (config.py).     *)
(*                                                                         *)
(* Time runs in hours.  A collection takes at most one, writing takes      *)
(* none; but the process may die anywhere, in the middle of a file too.    *)
(***************************************************************************)
EXTENDS Naturals, Sequences, FiniteSets

CONSTANTS
    Cars,
    Processes, Web,  \* the processes that answer; Web is the one that refreshes
    Day,             \* hours from one nightly run to the next
    MaxClock,        \* bound on time
    MaxChanges,      \* bound on the changes the operator makes to the site
    Torn, Missing,   \* what a file may be that is no fleet
    None

ASSUME FleetAssumption ==
    /\ Web \in Processes
    /\ Day \in Nat /\ Day > 1 /\ MaxClock \in Nat /\ MaxClock > 0 /\ MaxChanges \in Nat
    /\ IsFiniteSet(Cars) /\ None \notin Cars \cup Nat

VARIABLES
    clock,
    site,     \* the catalogue, in the order the site lists it
    changes,
    disk,     \* fleet.json and fleet.json.previous
    thread,   \* the refresh thread
    tried,    \* when it last set out
    up,       \* processes that are running
    cache,    \* the fleet each has in memory
    loading,  \* the fleet a turn of it has read and not cached yet
    quote,    \* what the customer was quoted
    booked    \* the car her booking is for

vars == <<clock, site, changes, disk, thread, tried, up, cache, loading, quote, booked>>

\* A fleet is a sequence: collect names a car by its place, veh_001 and so on.
Fleets == {f \in UNION {[1 .. n -> Cars] : n \in 0 .. Cardinality(Cars)} :
              \A i, j \in DOMAIN f : f[i] = f[j] => i = j}

\* `taken` is None in a file nobody stamped.
Snapshots == [cars: Fleets, taken: (0 .. MaxClock) \cup {None}]

ASSUME FileAssumption == Torn \notin Snapshots /\ Missing \notin Snapshots

Ids == 1 .. Cardinality(Cars)

\* previous_fire, seconds_until: the nightly run at or before, and after, `now`.
PreviousFire(now) == now - (now % Day)

NextFire(now) == PreviousFire(now) + Day

Threads ==
    [phase: {"down"}] \cup [phase: {"sleeping"}, wake: Nat]
    \cup [phase: {"collecting"}, taken: 0 .. MaxClock, current: Snapshots, listed: Fleets]
    \cup [phase: {"keeping", "kept", "writing"}, taken: 0 .. MaxClock,
          current: Snapshots, new: Fleets]

TypeOK ==
    /\ clock \in 0 .. MaxClock /\ changes \in 0 .. MaxChanges
    /\ site \in Fleets
    /\ disk \in [main: Snapshots \cup {Torn}, previous: Snapshots \cup {Torn, Missing}]
    /\ thread \in Threads /\ (thread.phase = "down" <=> Web \notin up)
    /\ thread.phase = "sleeping" => thread.wake <= NextFire(clock)
    /\ tried \in (0 .. MaxClock) \cup {None}
    /\ up \subseteq Processes
    /\ {cache, loading} \subseteq [Processes -> Fleets \cup {None}]
    /\ \A p \in Processes \ up : cache[p] = None /\ loading[p] = None
    /\ quote = None \/ quote \in [id: Ids, car: Cars]
    /\ booked \in Cars \cup {None}

\* A fleet somebody wrote by hand; nothing is running yet.
Init ==
    /\ clock = 1 /\ changes = 0
    /\ site \in Fleets \ {<<>>}
    /\ disk = [main |-> [cars |-> site, taken |-> None], previous |-> Missing]
    /\ thread = [phase |-> "down"]
    /\ tried = None
    /\ up = {}
    /\ cache = [p \in Processes |-> None]
    /\ loading = [p \in Processes |-> None]
    /\ quote = None
    /\ booked = None

-----------------------------------------------------------------------------
(* The clock of the refresh thread *)

\* Mutant: after a failure as after a success, the same time tomorrow.
RetryTomorrow(now) == now + Day

\* next_delay: after a failure an hour, but not past the nightly run, which an hour
\* never passes here.
Retry(now) == now + 1

\* Mutant: the age of the fleet decides.
OverdueByAge == disk.main = Torn \/ disk.main.taken = None \/ disk.main.taken + Day < clock

\* is_overdue, at boot: a night was missed, or nothing says when the fleet is from.
Overdue == disk.main = Torn \/ disk.main.taken = None \/ disk.main.taken < PreviousFire(clock)

Sleeping(wake) == [phase |-> "sleeping", wake |-> wake]

\* Time passes unless the thread is due or in the middle of its writes; a collection
\* is over, and what a turn read is cached, within the hour.
Tick ==
    /\ clock < MaxClock
    /\ \/ thread.phase = "down"
       \/ thread.phase = "sleeping" /\ clock < thread.wake
       \/ thread.phase = "collecting" /\ clock = thread.taken
    /\ \A p \in Processes : loading[p] = None
    /\ clock' = clock + 1
    /\ UNCHANGED <<site, changes, disk, thread, tried, up, cache, loading, quote, booked>>

-----------------------------------------------------------------------------
(* The operator *)

\* A new car is listed first.
Lists(car) ==
    /\ changes < MaxChanges
    /\ \A i \in DOMAIN site : site[i] # car
    /\ site' = <<car>> \o site
    /\ changes' = changes + 1
    /\ UNCHANGED <<clock, disk, thread, tried, up, cache, loading, quote, booked>>

Delists(car) ==
    /\ changes < MaxChanges
    /\ \E i \in DOMAIN site :
          /\ site[i] = car
          /\ site' = SubSeq(site, 1, i - 1) \o SubSeq(site, i + 1, Len(site))
    /\ changes' = changes + 1
    /\ UNCHANGED <<clock, disk, thread, tried, up, cache, loading, quote, booked>>

-----------------------------------------------------------------------------
(* A refresh *)

\* The fleet on disk and the catalogue are read; a file that does not parse ends it.
SetsOut ==
    /\ thread.phase = "sleeping" /\ thread.wake <= clock
    /\ tried' = clock
    /\ thread' = IF disk.main = Torn THEN Sleeping(Retry(clock))
                 ELSE [phase |-> "collecting", taken |-> clock,
                       current |-> disk.main, listed |-> site]
    /\ UNCHANGED <<clock, site, changes, disk, up, cache, loading, quote, booked>>

\* validate: there are cars, and no more than a quarter of them is gone.
Validates(new, current) == new # <<>> /\ 4 * Len(new) >= 3 * Len(current.cars)

\* Mutant: the new fleet goes in place before the old one is kept.
KeepOverwriting == [main |-> Torn, previous |-> disk.previous]

\* Opening a file to write it empties it.
Keep == [disk EXCEPT !.previous = Torn]

\* Some of the cars of a fleet, in its order.
Some == [f \in Fleets |-> {new \in Fleets : \A i, j \in DOMAIN new : i <= j =>
                             \E a, b \in DOMAIN f : a <= b /\ f[a] = new[i] /\ f[b] = new[j]}]

\* Every page has been read, or could not be: its car is skipped.
Collects ==
    /\ thread.phase = "collecting"
    /\ \E new \in Some[thread.listed] :
          /\ Validates(new, thread.current)
          /\ thread' = [phase |-> "keeping", taken |-> thread.taken,
                        current |-> thread.current, new |-> new]
    /\ disk' = Keep
    /\ UNCHANGED <<clock, site, changes, tried, up, cache, loading, quote, booked>>

\* The site does not answer, or validate refuses what it lists: too few cars, or one
\* that does not parse or has no rate.
CollectFails ==
    /\ thread.phase = "collecting"
    /\ thread' = Sleeping(Retry(clock))
    /\ UNCHANGED <<clock, site, changes, disk, tried, up, cache, loading, quote, booked>>

Kept ==
    /\ thread.phase = "keeping"
    /\ thread' = [thread EXCEPT !.phase = "kept"]
    /\ disk' = [disk EXCEPT !.previous = thread.current]
    /\ UNCHANGED <<clock, site, changes, tried, up, cache, loading, quote, booked>>

Overwrites ==
    /\ thread.phase = "kept"
    /\ thread' = [thread EXCEPT !.phase = "writing"]
    /\ disk' = [disk EXCEPT !.main = Torn]
    /\ UNCHANGED <<clock, site, changes, tried, up, cache, loading, quote, booked>>

\* Mutant: the process goes on with the fleet it has.
NotReloaded == cache

\* config.reload, in the process that refreshes and no other.
Reloaded == [cache EXCEPT ![Web] = None]

Written ==
    /\ thread.phase = "writing"
    /\ thread' = Sleeping(NextFire(clock))
    /\ disk' = [disk EXCEPT !.main = [cars |-> thread.new, taken |-> thread.taken]]
    /\ cache' = Reloaded
    /\ UNCHANGED <<clock, site, changes, tried, up, loading, quote, booked>>

-----------------------------------------------------------------------------
(* The processes *)

\* refresh.start, in the web process: a night that was missed is caught up.
Boot(p) ==
    /\ p \notin up
    /\ up' = up \cup {p}
    /\ thread' = IF p # Web THEN thread
                 ELSE Sleeping(IF Overdue THEN clock ELSE NextFire(clock))
    /\ UNCHANGED <<clock, site, changes, disk, tried, cache, loading, quote, booked>>

Crash(p) ==
    /\ p \in up
    /\ up' = up \ {p}
    /\ cache' = [cache EXCEPT ![p] = None]
    /\ loading' = [loading EXCEPT ![p] = None]
    /\ thread' = IF p = Web THEN [phase |-> "down"] ELSE thread
    /\ UNCHANGED <<clock, site, changes, disk, tried, quote, booked>>

\* load_fleet: a turn that finds nothing in memory reads the file.  One that does
\* not parse fails the turn and leaves nothing behind.
Reads(p) ==
    /\ p \in up /\ cache[p] = None /\ loading[p] = None
    /\ disk.main # Torn
    /\ loading' = [loading EXCEPT ![p] = disk.main.cars]
    /\ UNCHANGED <<clock, site, changes, disk, thread, tried, up, cache, quote, booked>>

\* lru_cache keeps what the turn read, though the cache was dropped meanwhile.
Caches(p) ==
    /\ loading[p] # None
    /\ cache' = [cache EXCEPT ![p] = loading[p]]
    /\ loading' = [loading EXCEPT ![p] = None]
    /\ UNCHANGED <<clock, site, changes, disk, thread, tried, up, quote, booked>>

\* get_vehicle: the car an id stands for in a process.
Vehicle(p, id) == IF cache[p] # None /\ id \in DOMAIN cache[p] THEN cache[p][id] ELSE None

\* create_demo_quote tells the customer the car and keeps its id.
Quotes(p, id) ==
    /\ quote = None /\ Vehicle(p, id) # None
    /\ quote' = [id |-> id, car |-> Vehicle(p, id)]
    /\ UNCHANGED <<clock, site, changes, disk, thread, tried, up, cache, loading, booked>>

\* create_demo_reservation takes the car with the quote's id.
Books(p) ==
    /\ quote # None /\ booked = None /\ Vehicle(p, quote.id) # None
    /\ booked' = Vehicle(p, quote.id)
    /\ UNCHANGED <<clock, site, changes, disk, thread, tried, up, cache, loading, quote>>

-----------------------------------------------------------------------------
Next ==
    \/ Tick
    \/ \E car \in Cars : Lists(car) \/ Delists(car)
    \/ SetsOut \/ Collects \/ CollectFails \/ Kept \/ Overwrites \/ Written
    \/ \E p \in Processes : \/ Boot(p) \/ Crash(p) \/ Reads(p) \/ Caches(p) \/ Books(p)
                            \/ \E id \in Ids : Quotes(p, id)

Spec == Init /\ [][Next]_vars

-----------------------------------------------------------------------------
(* Properties *)

\* Wherever the process dies, the fleet that served last, or the one before it, is
\* whole in one of the two files (refresh_once).
LastGoodKept == disk.main # Torn \/ disk.previous \notin {Torn, Missing}

\* While the web process runs, a fleet older than a day was tried again within the
\* hour: no night is missed, not by a restart nor by an attempt that runs into the
\* next (is_overdue, next_delay, seconds_until).
StaleIsTried ==
    thread.phase = "sleeping" /\ clock < thread.wake =>
        \/ disk.main # Torn /\ disk.main.taken # None /\ clock <= disk.main.taken + Day
        \/ tried # None /\ clock <= tried + 1

\* Between refreshes the process that makes them serves the fleet on disk or, if a turn
\* was reading just when it was replaced, the one before (config.reload).
ServedIsRecent ==
    cache[Web] # None /\ thread.phase \in {"sleeping", "collecting"} =>
        \E file \in {disk.main, disk.previous} \ {Torn, Missing} : cache[Web] = file.cars

\* What the code breaks.

\* What the state block says and what the customer was told cannot drift apart
\* (_live_quote).
QuoteNamesItsCar ==
    quote # None => \A p \in Processes : Vehicle(p, quote.id) \in {None, quote.car}

\* A fleet that was refreshed is served (config.reload in refresh_once).
RefreshIsServed ==
    \A p \in Processes : cache[p] # None /\ thread.phase \in {"sleeping", "collecting"} =>
        \E file \in {disk.main, disk.previous} \ {Torn, Missing} : cache[p] = file.cars
=============================================================================
