----------------------------- MODULE ModemProofs -----------------------------
(***************************************************************************)
(* What a sketch asks of Modem, for every value of the constants: a call   *)
(* about the time ends within its budget and a fixed excess and answers    *)
(* honestly, and a status was true.  Sleep, which turns the modem off, at  *)
(* the end: SleepControl puts a prepared chip to sleep, for every number   *)
(* of timers and pads and every length of time.                            *)
(***************************************************************************)
EXTENDS MCModem, MCSleep, SequenceTheorems, FiniteSetTheorems, WellFoundedInduction, TLAPS

-----------------------------------------------------------------------------
(* The inductive invariant of NetworkTime *)

\* The loops getLocalTime runs for itself, one after the other.
OwnLoops == {"time", "network", "pdp"}

Typed ==
  /\ TypeOK
  /\ call \in [name : Loops \cup {"none", "getLocalTime"}, start : 0 .. Wrap - 1, ms : Nat]
  /\ wait \in [for : Loops \cup {"none", "server"}, start : 0 .. Wrap - 1, budget : Nat, last : BOOLEAN]
  /\ socket \in BOOLEAN /\ spent \in Nat
  /\ result \in [ok : BOOLEAN, shift : Int]

\* Nothing is left of a call that has returned; one that runs counts its time
\* right, although millis() may have wrapped.
Timed ==
  /\ pc = "idle" => call = NoCall /\ wait = Idle /\ spent = 0
  /\ pc # "idle" => /\ call.name # "none" /\ call.ms \in Budgets
                    /\ Elapsed(call.start) = spent
                    /\ spent <= call.ms + Overrun

\* Time spent when the loop or the attempt in progress began.
Before == spent - Elapsed(wait.start)

\* The budget of a loop is what the call had left when it began; a loop ends
\* at most one delay after its budget, and not before it unless it succeeds.
Polls ==
  pc = "poll" =>
    /\ wait.for \in Loops /\ Before >= 0
    /\ IF wait.last THEN Elapsed(wait.start) \in wait.budget .. wait.budget + DelayOf(wait.for)
       ELSE Elapsed(wait.start) = 0 \/ Elapsed(wait.start) < wait.budget
    /\ call.name = wait.for => Before = 0 /\ wait.budget = call.ms
    /\ call.name # wait.for =>
         /\ call.name = "getLocalTime" /\ wait.for \in OwnLoops
         /\ wait.for = "time" => Before = 0 /\ wait.budget <= call.ms
         /\ wait.for = "network" => Before <= call.ms - MinAttempt /\ Before + wait.budget = call.ms
         /\ wait.for = "pdp" =>
              /\ Before <= call.ms + NetPoll
              /\ IF Before <= call.ms THEN Before + wait.budget = call.ms ELSE wait.budget = 0

\* Only getLocalTime asks servers, in order and none that has no name; the
\* attempt in progress began early enough.
Asks ==
  /\ pc \in {"idle", "poll"} => tried = {}
  /\ pc \in {"servers", "resolve", "udp"} => call.name = "getLocalTime"
  /\ pc = "servers" => tried = {s \in named : s < server} /\ wait.for = "none"
  /\ pc \in {"resolve", "udp"} =>
       /\ server \in named /\ tried = {s \in named : s <= server}
       /\ wait.for = "server" /\ Before >= 0
       /\ Before <= call.ms - MinAttempt /\ Before + wait.budget <= call.ms
  /\ pc = "resolve" => Elapsed(wait.start) = 0
  /\ socket <=> pc \in {"resolve", "udp"}

\* The offset that counts is the one the sketch asked for last.
Zoned == asked # {} => custom /\ asked = {offset}

IInv == Typed /\ Timed /\ Polls /\ Asks /\ Zoned

-----------------------------------------------------------------------------
(* Time that wraps *)

\* Within one turn of millis() a difference modulo the turn is a difference.
LEMMA Turn ==
  ASSUME NEW w \in Nat \ {0}, NEW x \in Int, -w <= x, x < 2 * w
  PROVE  x % w = IF x < 0 THEN x + w ELSE IF x < w THEN x ELSE x - w
<1>1. CASE x < 0
  BY <1>1
<1>2. CASE 0 <= x /\ x < w
  BY <1>2
<1>3. CASE w <= x
  BY <1>3
<1>4. QED
  BY <1>1, <1>2, <1>3

\* Time that passes is counted, and millis() wrapping hides none of it.
LEMMA Later ==
  ASSUME NEW w \in Nat \ {0}, NEW t \in 0 .. w - 1, NEW start \in 0 .. w - 1, NEW d \in Nat,
         ((t - start) % w) + d < w
  PROVE  (t + d) % w \in 0 .. w - 1 /\ (((t + d) % w) - start) % w = ((t - start) % w) + d
<1>1. (t - start) % w = IF t >= start THEN t - start ELSE t - start + w
  <2>1. t - start \in Int /\ -w <= t - start /\ t - start < 2 * w /\ t - start < w
    OBVIOUS
  <2>2. (t - start) % w = IF t - start < 0 THEN t - start + w ELSE IF t - start < w THEN t - start ELSE t - start - w
    BY <2>1, Turn
  <2>3. QED
    BY <2>1, <2>2
<1>2. d < w /\ t + d < 2 * w /\ t + d \in Int /\ -w <= t + d /\ ~(t + d < 0)
  BY <1>1
<1>3. (t + d) % w = IF t + d < w THEN t + d ELSE t + d - w
  <2>1. PICK y \in Int : y = t + d
    BY <1>2
  <2>2. -w <= y /\ y < 2 * w /\ ~(y < 0)
    BY <1>2, <2>1
  <2>3. y % w = IF y < 0 THEN y + w ELSE IF y < w THEN y ELSE y - w
    BY <2>2, Turn
  <2>4. QED
    BY <2>1, <2>2, <2>3
<1>4. PICK u \in Int : u = (t + d) % w
  BY <1>2, <1>3
<1>5. u \in 0 .. w - 1
  BY <1>2, <1>3, <1>4
<1>6. (u - start) % w = IF u >= start THEN u - start ELSE u - start + w
  <2>1. u - start \in Int /\ -w <= u - start /\ u - start < 2 * w /\ u - start < w
    BY <1>5
  <2>2. (u - start) % w = IF u - start < 0 THEN u - start + w ELSE IF u - start < w THEN u - start ELSE u - start - w
    BY <2>1, Turn
  <2>3. QED
    BY <2>1, <2>2
<1>7. (u - start) % w = ((t - start) % w) + d
  BY <1>1, <1>2, <1>3, <1>4, <1>5, <1>6
<1>8. QED
  BY <1>4, <1>5, <1>7

\* What the constants are, in the form the provers take.
LEMMA Bounds ==
  TimeAssumption =>
    /\ NServers \in Nat \ {0} /\ Budgets \subseteq Nat /\ Offsets \subseteq Int
    /\ MinAttempt \in Nat \ {0} /\ TimePoll \in Nat \ {0} /\ NetPoll \in Nat \ {0}
    /\ UdpPoll \in Nat \ {0} /\ Quarter \in Nat \ {0}
    /\ NitzBudget \in Nat /\ ServerBudget \in Nat /\ MaxDns \in Nat /\ East \in Nat /\ West \in Nat
    /\ Wrap \in Nat \ {0} /\ Wrap > 2
    /\ TimePoll <= NetPoll /\ UdpPoll <= NetPoll
    /\ Overrun \in Int /\ Overrun >= 2 * NetPoll /\ Overrun >= MaxDns - MinAttempt
    /\ \A ms \in Budgets : ms \in Nat /\ ms + Overrun < Wrap
<1> SUFFICES ASSUME TimeAssumption
             PROVE  /\ NServers \in Nat \ {0} /\ Budgets \subseteq Nat /\ Offsets \subseteq Int
                    /\ MinAttempt \in Nat \ {0} /\ TimePoll \in Nat \ {0} /\ NetPoll \in Nat \ {0}
                    /\ UdpPoll \in Nat \ {0} /\ Quarter \in Nat \ {0}
                    /\ NitzBudget \in Nat /\ ServerBudget \in Nat /\ MaxDns \in Nat /\ East \in Nat /\ West \in Nat
                    /\ Wrap \in Nat \ {0} /\ Wrap > 2
                    /\ TimePoll <= NetPoll /\ UdpPoll <= NetPoll
                    /\ Overrun \in Int /\ Overrun >= 2 * NetPoll /\ Overrun >= MaxDns - MinAttempt
                    /\ \A ms \in Budgets : ms \in Nat /\ ms + Overrun < Wrap
  OBVIOUS
<1>1. /\ NServers \in Nat \ {0} /\ Budgets \subseteq Nat /\ Offsets \subseteq Int
      /\ MinAttempt \in Nat \ {0} /\ TimePoll \in Nat \ {0} /\ NetPoll \in Nat \ {0}
      /\ UdpPoll \in Nat \ {0} /\ Quarter \in Nat \ {0}
      /\ NitzBudget \in Nat /\ ServerBudget \in Nat /\ MaxDns \in Nat /\ East \in Nat /\ West \in Nat
      /\ Wrap \in Nat /\ TimePoll <= NetPoll /\ UdpPoll <= NetPoll
  BY DEF TimeAssumption
<1>2. \A ms \in Budgets \cup {0} : Wrap > ms + MaxDns + 2 * NetPoll
  BY DEF TimeAssumption
<1>3. Wrap > 0 + MaxDns + 2 * NetPoll
  BY <1>2
<1>4. /\ Overrun \in Int /\ Overrun >= 2 * NetPoll /\ Overrun >= MaxDns - MinAttempt
      /\ Overrun <= MaxDns + 2 * NetPoll
  BY <1>1 DEF Overrun
<1>5. \A ms \in Budgets : ms \in Nat /\ ms + Overrun < Wrap
  BY <1>1, <1>2, <1>4
<1>6. QED
  BY <1>1, <1>3, <1>4, <1>5

\* Time that passes adds to what has elapsed.
LEMMA Passes ==
  ASSUME TimeAssumption, IInv, NEW d \in Nat, now' = (now + d) % Wrap, spent + d < Wrap,
         NEW start \in 0 .. Wrap - 1, Elapsed(start) <= spent
  PROVE  now' \in 0 .. Wrap - 1 /\ (now' - start) % Wrap = Elapsed(start) + d
<1>1. now \in 0 .. Wrap - 1 /\ Wrap \in Nat \ {0} /\ spent \in Nat
  BY Bounds DEF IInv, Typed, TypeOK
<1>2. Elapsed(start) \in Int /\ Elapsed(start) + d < Wrap
  <2>1. (now - start) \in Int /\ (now - start) % Wrap \in Int
    BY <1>1
  <2>2. QED
    BY <1>1, <2>1 DEF Elapsed
<1>3. ((now - start) % Wrap) + d < Wrap
  BY <1>2 DEF Elapsed
<1>4. (now + d) % Wrap \in 0 .. Wrap - 1 /\ (((now + d) % Wrap) - start) % Wrap = ((now - start) % Wrap) + d
  BY <1>1, <1>3, Later
<1>5. QED
  BY <1>4 DEF Elapsed

\* Nothing has elapsed since now.
LEMMA NoneElapsed == TimeAssumption /\ now \in 0 .. Wrap - 1 => Elapsed(now) = 0
<1> SUFFICES ASSUME TimeAssumption, now \in 0 .. Wrap - 1 PROVE Elapsed(now) = 0
  OBVIOUS
<1>1. Wrap \in Nat \ {0} /\ now - now = 0
  BY Bounds
<1>2. 0 % Wrap = 0
  BY <1>1
<1>3. QED
  BY <1>1, <1>2 DEF Elapsed

\* What the call has left.
LEMMA RemainingIs ==
  ASSUME TimeAssumption, IInv, pc # "idle"
  PROVE  /\ Remaining \in Nat /\ Remaining <= call.ms
         /\ spent <= call.ms => Remaining = call.ms - spent
         /\ spent >= call.ms => Remaining = 0
<1>1. Elapsed(call.start) = spent /\ spent \in Nat /\ call.ms \in Nat
  BY DEF IInv, Typed, Timed
<1>2. Remaining = IF spent >= call.ms THEN 0 ELSE call.ms - spent
  BY <1>1 DEF Remaining
<1>3. QED
  BY <1>1, <1>2

-----------------------------------------------------------------------------
(* Time zones *)

\* The quarters of an offset are within the limits of the SDK.
LEMMA QuartersInRange ==
  ASSUME TimeAssumption, NEW s \in Int
  PROVE  RoundQuarterHours(s) \in -West .. East
<1>1. Quarter \in Nat \ {0} /\ West \in Nat /\ East \in Nat
  BY Bounds
<1>2. PICK h \in Nat : h = Quarter \div 2
  BY <1>1
<1>3. PICK a \in Nat : a = IF s < 0 THEN -s ELSE s
  OBVIOUS
<1>4. PICK size \in Nat : size = (a + h) \div Quarter
  BY <1>1
<1>5. RoundQuarterHours(s) = IF s < 0 THEN -Smaller(size, West) ELSE Smaller(size, East)
  BY <1>2, <1>3, <1>4 DEF RoundQuarterHours
<1>6. QED
  BY <1>1, <1>5 DEF Smaller

\* They are the nearest ones, unless the offset is beyond the limits.
LEMMA NearestQuarter ==
  ASSUME TimeAssumption, NEW s \in Int
  PROVE  \/ 2 * (s - RoundQuarterHours(s) * Quarter) \in -Quarter .. Quarter
         \/ RoundQuarterHours(s) \in {-West, East}
<1>1. Quarter \in Nat \ {0} /\ West \in Nat /\ East \in Nat
  BY Bounds
<1>2. PICK h \in Nat : h = Quarter \div 2
  BY <1>1
<1>3. Quarter - 1 <= 2 * h /\ 2 * h <= Quarter
  BY <1>1, <1>2
<1>4. PICK a \in Nat : a = IF s < 0 THEN -s ELSE s
  OBVIOUS
<1>5. PICK size \in Nat : size = (a + h) \div Quarter
  BY <1>1
<1>6. PICK p \in Int : p = size * Quarter
  BY <1>1
<1>7. p <= a + h /\ a + h < p + Quarter
  BY <1>1, <1>5, <1>6
<1>8. RoundQuarterHours(s) = IF s < 0 THEN -Smaller(size, West) ELSE Smaller(size, East)
  BY <1>2, <1>4, <1>5 DEF RoundQuarterHours
<1>9. CASE RoundQuarterHours(s) \in {-West, East}
  BY <1>9
<1>10. CASE RoundQuarterHours(s) \notin {-West, East}
  <2>1. RoundQuarterHours(s) = IF s < 0 THEN -size ELSE size
    BY <1>1, <1>8, <1>10 DEF Smaller
  <2>2. (-size) * Quarter = -p
    BY <1>1, <1>6
  <2>3. RoundQuarterHours(s) * Quarter = IF s < 0 THEN -p ELSE p
    BY <1>6, <2>1, <2>2
  <2>4. PICK d \in Int : d = s - RoundQuarterHours(s) * Quarter
    BY <2>3
  <2>5. d = IF s < 0 THEN p - a ELSE a - p
    BY <1>4, <2>3, <2>4
  <2>6. 2 * d \in -Quarter .. Quarter
    BY <1>1, <1>3, <1>7, <2>5
  <2>7. QED
    BY <2>4, <2>6
<1>11. QED
  BY <1>9, <1>10

\* A zone that is written as POSIX writes it is read with the right sign.
LEMMA ZoneReadsBack == \A s \in Int : ParseFixedOffsetTz(PosixText(s)) = s
BY DEF ParseFixedOffsetTz, PosixText

-----------------------------------------------------------------------------
(* Every action preserves the invariant *)

\* The time zone in force is a whole number of seconds.
LEMMA ShiftIsNumber == TimeAssumption /\ IInv => Shift \in Int
<1> SUFFICES ASSUME TimeAssumption, IInv PROVE Shift \in Int
  OBVIOUS
<1>1. offset \in Int /\ tz \in Int /\ Quarter \in Int
  BY Bounds DEF IInv, Typed, TypeOK
<1>2. tz * Quarter \in Int
  BY <1>1
<1>3. QED
  BY <1>1, <1>2 DEF Shift

\* At first nothing is asked for.
LEMMA InvInit == TimeAssumption /\ Init => IInv
<1> SUFFICES ASSUME TimeAssumption, Init PROVE IInv
  OBVIOUS
<1>1. 0 \in -West .. East /\ 1 \in 1 .. NServers + 1 /\ now \in 0 .. Wrap - 1 /\ 0 \in 0 .. Wrap - 1
  BY Bounds DEF Init
<1>2. TypeOK
  BY <1>1 DEF Init, TypeOK, Idle, Servers
<1>3. Typed
  <2>1. NoCall \in [name : Loops \cup {"none", "getLocalTime"}, start : 0 .. Wrap - 1, ms : Nat]
    BY <1>1 DEF NoCall
  <2>2. Idle \in [for : Loops \cup {"none", "server"}, start : 0 .. Wrap - 1, budget : Nat, last : BOOLEAN]
    BY <1>1 DEF Idle
  <2>3. result \in [ok : BOOLEAN, shift : Int] /\ socket \in BOOLEAN /\ spent \in Nat
    <3>1. result = [ok |-> FALSE, shift |-> 0] /\ socket = FALSE /\ spent = 0
      BY DEF Init
    <3>2. 0 \in Int /\ 0 \in Nat
      OBVIOUS
    <3>3. QED
      BY <3>1, <3>2, Zenon
  <2>4. call = NoCall /\ wait = Idle
    BY DEF Init
  <2>5. QED
    BY <1>2, <2>1, <2>2, <2>3, <2>4 DEF Typed
<1>4. Timed /\ Polls /\ Asks /\ Zoned
  BY DEF Init, Timed, Polls, Asks, Zoned
<1>5. QED
  BY <1>3, <1>4 DEF IInv

\* A call that returns leaves nothing behind.
LEMMA InvReturn ==
  ASSUME TimeAssumption, IInv, NEW ok \in BOOLEAN, Return(ok), now' \in 0 .. Wrap - 1,
         socket' = FALSE, clock' \in {"unset", "old", "set"}, UNCHANGED config
  PROVE  IInv'
<1>1. Shift \in Int /\ 1 \in 1 .. NServers + 1 /\ 0 \in 0 .. Wrap - 1
  BY ShiftIsNumber, Bounds
<1>2. TypeOK'
  BY <1>1 DEF IInv, Typed, TypeOK, Return, Idle, config, Servers
<1>3. Typed'
  BY <1>1, <1>2 DEF Typed, Return, Idle, NoCall
<1>4. Timed' /\ Polls' /\ Asks'
  BY DEF Timed, Polls, Asks, Return
<1>5. Zoned'
  BY DEF IInv, Zoned, config
<1>6. QED
  BY <1>3, <1>4, <1>5 DEF IInv

\* What a wait that starts now needs: the loops of getLocalTime follow each other.
Fits(name, loop, ms, budget, since) ==
  /\ name = loop => since = 0 /\ budget = ms
  /\ name # loop =>
       /\ name = "getLocalTime" /\ loop \in OwnLoops
       /\ loop = "time" => since = 0 /\ budget <= ms
       /\ loop = "network" => since <= ms - MinAttempt /\ since + budget = ms
       /\ loop = "pdp" => since <= ms + NetPoll /\ (IF since <= ms THEN since + budget = ms ELSE budget = 0)

\* A wait that starts.
LEMMA InvWait ==
  ASSUME TimeAssumption, IInv, NEW loop \in Loops, NEW budget \in Nat, Wait(loop, now, budget),
         call' \in [name : Loops \cup {"getLocalTime"}, start : 0 .. Wrap - 1, ms : Budgets],
         Elapsed(call'.start) = spent, UNCHANGED spent, spent <= call'.ms + Overrun,
         Fits(call'.name, loop, call'.ms, budget, spent),
         tried = {}, socket = FALSE, UNCHANGED <<now, socket, clock, config>>
  PROVE  IInv'
<1>1. TypeOK'
  BY DEF IInv, Typed, TypeOK, Wait, config, Loops
<1>2. Typed'
  <2>1. now \in 0 .. Wrap - 1 /\ Budgets \subseteq Nat
    BY Bounds DEF IInv, Typed, TypeOK
  <2>2. QED
    BY <1>1, <2>1 DEF IInv, Typed, Wait
<1>3. Timed'
  BY DEF Timed, Wait, Loops, Elapsed
<1>4. Elapsed(wait.start)' = 0
  BY NoneElapsed DEF IInv, Typed, TypeOK, Wait, Elapsed
<1>5. Before' = spent /\ spent \in Nat
  BY <1>4 DEF Before, IInv, Typed
<1>6. Polls'
  BY <1>4, <1>5 DEF Polls, Fits, Wait
<1>7. Asks' /\ Zoned'
  BY DEF IInv, Asks, Zoned, Wait, config
<1>8. QED
  BY <1>2, <1>3, <1>6, <1>7 DEF IInv

\* A sketch configures the time between calls.
LEMMA InvConfigure ==
  ASSUME TimeAssumption, IInv, NEW requested \in SUBSET Servers,
         ConfigureUnknown(requested) \/ \E s \in Offsets : Configure(s, requested)
  PROVE  IInv'
<1>1. named' \in SUBSET Servers
  BY DEF Configure, ConfigureUnknown, SetServers
<1>2. CASE \E s \in Offsets : Configure(s, requested)
  <2>1. PICK s \in Offsets : Configure(s, requested)
    BY <1>2
  <2>2. s \in Int /\ ParseFixedOffsetTz(PosixText(s)) = s /\ RoundQuarterHours(s) \in -West .. East
    BY Bounds, ZoneReadsBack, QuartersInRange
  <2>3. custom' = TRUE /\ offset' = s /\ tz' = RoundQuarterHours(s) /\ asked' = {s}
    BY <2>1, <2>2 DEF Configure, ApplyOffset
  <2>4. Typed'
    BY <1>1, <2>1, <2>2, <2>3 DEF IInv, Typed, TypeOK, Configure
  <2>5. Timed' /\ Polls' /\ Asks'
    BY <2>1 DEF IInv, Timed, Polls, Asks, Configure
  <2>6. QED
    BY <2>3, <2>4, <2>5 DEF IInv, Zoned
<1>3. CASE ConfigureUnknown(requested)
  <2>1. Typed'
    BY <1>1, <1>3 DEF IInv, Typed, TypeOK, ConfigureUnknown
  <2>2. Timed' /\ Polls' /\ Asks' /\ Zoned'
    BY <1>3 DEF IInv, Timed, Polls, Asks, Zoned, ConfigureUnknown
  <2>3. QED
    BY <2>1, <2>2 DEF IInv
<1>4. QED
  BY <1>2, <1>3

\* getLocalTime begins.
LEMMA InvGetLocalTime ==
  ASSUME TimeAssumption, IInv, NEW ms \in Budgets, GetLocalTime(ms)
  PROVE  IInv'
<1>1. /\ pc = "idle" /\ spent = 0 /\ tried = {} /\ socket = FALSE /\ now \in 0 .. Wrap - 1
      /\ clock \in {"unset", "old", "set"} /\ UNCHANGED <<now, socket, clock, config>>
  BY DEF GetLocalTime, IInv, Timed, Asks, Typed, TypeOK
<1>2. ms \in Nat /\ NitzBudget \in Nat /\ Overrun >= 0
  BY Bounds
<1>3. CASE clock = "set" \/ ~(Smaller(ms, NitzBudget) > 0)
  <2>1. PICK ok \in BOOLEAN : Return(ok)
    BY <1>3 DEF GetLocalTime
  <2>2. QED
    BY <1>1, <2>1, InvReturn DEF config
<1>4. CASE clock # "set" /\ Smaller(ms, NitzBudget) > 0
  <2>1. Begin("getLocalTime", ms) /\ Wait("time", now, Smaller(ms, NitzBudget))
    BY <1>4 DEF GetLocalTime
  <2>2. Smaller(ms, NitzBudget) \in Nat /\ Smaller(ms, NitzBudget) <= ms /\ "time" \in Loops
    BY <1>2 DEF Smaller, Loops
  <2>3. /\ call' \in [name : Loops \cup {"getLocalTime"}, start : 0 .. Wrap - 1, ms : Budgets]
        /\ call'.start = now /\ call'.ms = ms /\ call'.name = "getLocalTime" /\ UNCHANGED spent
    BY <1>1, <2>1 DEF Begin
  <2>4. Fits(call'.name, "time", call'.ms, Smaller(ms, NitzBudget), spent)
    BY <1>1, <2>2, <2>3 DEF Fits, OwnLoops
  <2>5. Elapsed(call'.start) = spent
    BY <1>1, <2>3, NoneElapsed
  <2>6. spent <= call'.ms + Overrun
    BY <1>1, <1>2, <2>3, Bounds
  <2>7. QED
    BY <1>1, <2>1, <2>2, <2>3, <2>4, <2>5, <2>6, InvWait
<1>5. QED
  BY <1>3, <1>4

\* A wait of its own begins.
LEMMA InvWaitFor ==
  ASSUME TimeAssumption, IInv, NEW ms \in Budgets, NEW loop \in Loops, WaitFor(loop, ms)
  PROVE  IInv'
<1>1. /\ pc = "idle" /\ spent = 0 /\ tried = {} /\ socket = FALSE /\ now \in 0 .. Wrap - 1
      /\ UNCHANGED <<now, socket, clock, config>> /\ Begin(loop, ms) /\ Wait(loop, now, ms)
  BY DEF WaitFor, IInv, Timed, Asks, Typed, TypeOK
<1>2. ms \in Nat /\ Overrun >= 0
  BY Bounds
<1>3. /\ call' \in [name : Loops \cup {"getLocalTime"}, start : 0 .. Wrap - 1, ms : Budgets]
      /\ call'.start = now /\ call'.ms = ms /\ call'.name = loop /\ UNCHANGED spent
  BY <1>1 DEF Begin
<1>4. Fits(call'.name, loop, call'.ms, ms, spent)
  BY <1>1, <1>3 DEF Fits
<1>5. Elapsed(call'.start) = spent /\ spent <= call'.ms + Overrun
  BY <1>1, <1>2, <1>3, NoneElapsed, Bounds
<1>6. QED
  BY <1>1, <1>2, <1>3, <1>4, <1>5, InvWait

\* What a loop that succeeds leads to, one case after the other.
LEMMA LoopGoesOn ==
  LoopSucceeds =>
    \/ Return(TRUE) /\ (call.name = wait.for \/ (wait.for = "time" /\ clock = "set"))
    \/ StartNtp /\ call.name # wait.for /\ wait.for = "time"
    \/ /\ call.name # wait.for /\ wait.for = "network"
       /\ Wait("pdp", now, Remaining) /\ UNCHANGED <<call, spent>>
    \/ /\ call.name # wait.for /\ wait.for \notin {"time", "network"}
       /\ pc' = "servers" /\ server' = 1 /\ wait' = Idle /\ Goes /\ UNCHANGED <<spent, tried>>
<1> SUFFICES ASSUME LoopSucceeds
             PROVE  \/ Return(TRUE) /\ (call.name = wait.for \/ (wait.for = "time" /\ clock = "set"))
                    \/ StartNtp /\ call.name # wait.for /\ wait.for = "time"
                    \/ /\ call.name # wait.for /\ wait.for = "network"
                       /\ Wait("pdp", now, Remaining) /\ UNCHANGED <<call, spent>>
                    \/ /\ call.name # wait.for /\ wait.for \notin {"time", "network"}
                       /\ pc' = "servers" /\ server' = 1 /\ wait' = Idle /\ Goes /\ UNCHANGED <<spent, tried>>
  OBVIOUS
<1>1. CASE call.name = wait.for \/ (wait.for = "time" /\ clock = "set")
  BY <1>1 DEF LoopSucceeds
<1>2. CASE call.name # wait.for /\ wait.for = "time" /\ clock # "set"
  BY <1>2 DEF LoopSucceeds
<1>3. CASE call.name # wait.for /\ wait.for = "network"
  BY <1>3 DEF LoopSucceeds
<1>4. CASE call.name # wait.for /\ wait.for \notin {"time", "network"}
  BY <1>4 DEF LoopSucceeds
<1>5. QED
  BY <1>1, <1>2, <1>3, <1>4

\* getLocalTime goes on to the servers, or gives up.
LEMMA InvStartNtp ==
  ASSUME TimeAssumption, IInv, pc = "poll", call.name # wait.for, wait.for = "time", StartNtp,
         UNCHANGED <<now, socket, clock, config>>
  PROVE  IInv'
<1>1. /\ socket = FALSE /\ tried = {} /\ call.name = "getLocalTime" /\ now \in 0 .. Wrap - 1
      /\ clock \in {"unset", "old", "set"} /\ call \in [name : Loops \cup {"none", "getLocalTime"}, start : 0 .. Wrap - 1, ms : Nat]
      /\ call.ms \in Budgets /\ Elapsed(call.start) = spent /\ spent <= call.ms + Overrun /\ spent \in Nat
  BY DEF IInv, Typed, TypeOK, Timed, Polls, Asks
<1>2. CASE CanStartNtp(Remaining)
  <2>1. Wait("network", now, Remaining) /\ UNCHANGED <<call, spent>>
    BY <1>2 DEF StartNtp
  <2>2. /\ Remaining \in Nat /\ Remaining >= MinAttempt /\ MinAttempt \in Nat \ {0} /\ call.ms \in Nat
        /\ spent < call.ms /\ Remaining = call.ms - spent
    BY <1>1, <1>2, RemainingIs, Bounds DEF CanStartNtp
  <2>3. "network" \in Loops /\ "getLocalTime" # "network" /\ "network" \in OwnLoops
    BY DEF Loops, OwnLoops
  <2>4. Fits(call'.name, "network", call'.ms, Remaining, spent)
    BY <1>1, <2>1, <2>2, <2>3 DEF Fits
  <2>5. call' \in [name : Loops \cup {"getLocalTime"}, start : 0 .. Wrap - 1, ms : Budgets]
    BY <1>1, <2>1
  <2>6. QED
    BY <1>1, <2>1, <2>2, <2>3, <2>4, <2>5, InvWait
<1>3. CASE ~CanStartNtp(Remaining)
  BY <1>1, <1>3, InvReturn DEF StartNtp, config
<1>4. QED
  BY <1>2, <1>3

\* A loop that has its answer.
LEMMA InvLoopSucceeds ==
  ASSUME TimeAssumption, IInv, pc = "poll", LoopSucceeds, UNCHANGED <<now, socket, clock, config>>
  PROVE  IInv'
<1>1. /\ socket = FALSE /\ tried = {} /\ now \in 0 .. Wrap - 1
      /\ clock \in {"unset", "old", "set"} /\ call \in [name : Loops \cup {"none", "getLocalTime"}, start : 0 .. Wrap - 1, ms : Nat]
      /\ call.ms \in Budgets /\ Elapsed(call.start) = spent /\ spent <= call.ms + Overrun /\ spent \in Nat
  BY DEF IInv, Typed, TypeOK, Timed, Polls, Asks
<1>2. CASE Return(TRUE)
  BY <1>1, <1>2, InvReturn DEF config
<1>3. CASE StartNtp /\ call.name # wait.for /\ wait.for = "time"
  BY <1>3, InvStartNtp
<1>4. CASE /\ call.name # wait.for /\ wait.for = "network"
           /\ Wait("pdp", now, Remaining) /\ UNCHANGED <<call, spent>>
  <2>1. PICK w \in Int : w = Elapsed(wait.start)
    BY Bounds DEF IInv, Typed, TypeOK, Elapsed
  <2>2. /\ call.name = "getLocalTime" /\ Before = spent - w /\ Before <= call.ms - MinAttempt
        /\ Before + wait.budget = call.ms /\ wait.budget \in Nat /\ call.ms \in Nat
        /\ w <= wait.budget + NetPoll /\ MinAttempt \in Nat \ {0} /\ NetPoll \in Nat \ {0}
    BY <1>1, <1>4, <2>1, Bounds DEF IInv, Typed, Polls, Before, DelayOf
  <2>3. spent <= call.ms + NetPoll
    BY <1>1, <2>1, <2>2
  <2>4. Remaining \in Nat /\ (IF spent <= call.ms THEN spent + Remaining = call.ms ELSE Remaining = 0)
    BY <1>1, <2>2, RemainingIs
  <2>5. "pdp" \in Loops /\ "getLocalTime" # "pdp" /\ "pdp" \in OwnLoops
    BY DEF Loops, OwnLoops
  <2>6. Fits(call'.name, "pdp", call'.ms, Remaining, spent)
    BY <1>4, <2>2, <2>3, <2>4, <2>5 DEF Fits
  <2>7. call' \in [name : Loops \cup {"getLocalTime"}, start : 0 .. Wrap - 1, ms : Budgets]
    BY <1>1, <1>4, <2>2
  <2>8. QED
    BY <1>1, <1>4, <2>4, <2>5, <2>6, <2>7, InvWait
<1>5. CASE /\ call.name # wait.for /\ wait.for \notin {"time", "network"}
           /\ pc' = "servers" /\ server' = 1 /\ wait' = Idle /\ Goes /\ UNCHANGED <<spent, tried>>
  <2>1. call.name = "getLocalTime"
    BY <1>5 DEF IInv, Polls
  <2>2. 1 \in 1 .. NServers + 1 /\ 0 \in 0 .. Wrap - 1
    BY Bounds
  <2>3. TypeOK'
    BY <1>5, <2>2 DEF IInv, Typed, TypeOK, Idle, Goes, config
  <2>4. Typed'
    BY <1>5, <2>2, <2>3 DEF IInv, Typed, Idle, Goes, config
  <2>5. Timed' /\ Polls'
    BY <1>5, <2>1 DEF IInv, Timed, Polls, Goes, Elapsed
  <2>6. tried' = {s \in named' : s < server'}
    <3>1. named' = named /\ named \in SUBSET (1 .. NServers) /\ server' = 1 /\ tried' = {}
      BY <1>1, <1>5 DEF IInv, Typed, TypeOK, Servers, config
    <3>2. \A s \in named : ~(s < 1)
      BY <3>1
    <3>3. QED
      BY <3>1, <3>2
  <2>7. Asks' /\ Zoned'
    BY <1>1, <1>5, <2>1, <2>6 DEF IInv, Asks, Zoned, Goes, Idle, config
  <2>8. QED
    BY <2>4, <2>5, <2>7 DEF IInv
<1>6. QED
  BY <1>2, <1>3, <1>4, <1>5, LoopGoesOn

\* A loop that waits for the next poll.
LEMMA InvDelay ==
  ASSUME TimeAssumption, IInv, pc = "poll", ~wait.last, DelayAndTest, UNCHANGED <<socket, clock, config>>
  PROVE  IInv'
<1>1. PICK d \in Nat : d = DelayOf(wait.for)
  BY Bounds DEF DelayOf
<1>2. PICK w \in Int : w = Elapsed(wait.start)
  BY Bounds DEF IInv, Typed, TypeOK, Elapsed
<1>3. /\ spent \in Nat /\ call.ms \in Nat /\ wait.budget \in Nat /\ wait.start \in 0 .. Wrap - 1 /\ call.start \in 0 .. Wrap - 1
      /\ call.ms \in Budgets /\ Elapsed(call.start) = spent /\ spent - w >= 0 /\ Before = spent - w
      /\ (w = 0 \/ w < wait.budget) /\ wait.for \in Loops
  BY <1>2 DEF IInv, Typed, Timed, Polls, Before
<1>4. d <= NetPoll /\ NetPoll \in Nat /\ MinAttempt \in Nat \ {0} /\ Overrun \in Int /\ Overrun >= 2 * NetPoll
  BY <1>1, Bounds DEF DelayOf
<1>5. w \in 0 .. Wrap - 1
  BY <1>2, Bounds DEF Elapsed, IInv, Typed, TypeOK
<1>6. spent + d <= call.ms + Overrun
  <2>1. CASE call.name = wait.for
    <3>1. spent - w = 0 /\ wait.budget = call.ms
      BY <1>3, <2>1 DEF IInv, Polls
    <3>2. QED
      BY <1>2, <1>3, <1>4, <1>5, <3>1
  <2>2. CASE call.name # wait.for
    <3>1. CASE wait.for = "time"
      <4>1. spent - w = 0 /\ wait.budget <= call.ms
        BY <1>3, <2>2, <3>1 DEF IInv, Polls
      <4>2. QED
        BY <1>2, <1>3, <1>4, <1>5, <4>1
    <3>2. CASE wait.for = "network"
      <4>1. spent - w + wait.budget = call.ms
        BY <1>3, <2>2, <3>2 DEF IInv, Polls
      <4>2. QED
        BY <1>2, <1>3, <1>4, <1>5, <4>1
    <3>3. CASE wait.for = "pdp"
      <4>1. spent - w <= call.ms + NetPoll /\ (IF spent - w <= call.ms THEN spent - w + wait.budget = call.ms ELSE wait.budget = 0)
        BY <1>3, <2>2, <3>3 DEF IInv, Polls
      <4>2. QED
        BY <1>2, <1>3, <1>4, <1>5, <4>1
    <3>4. QED
      BY <2>2, <3>1, <3>2, <3>3 DEF IInv, Polls, OwnLoops
  <2>3. QED
    BY <2>1, <2>2
<1>7. spent + d < Wrap
  BY <1>3, <1>6, Bounds
<1>8. now' = (now + d) % Wrap /\ spent' = spent + d /\ UNCHANGED <<call, result, pc, server, tried, socket, clock, config>>
  BY <1>1 DEF DelayAndTest, Goes
<1>9. now' \in 0 .. Wrap - 1 /\ (now' - wait.start) % Wrap = w + d /\ (now' - call.start) % Wrap = spent + d
  BY <1>2, <1>3, <1>7, <1>8, Passes
<1>10. wait' = [wait EXCEPT !.last = (w + d >= wait.budget)]
  BY <1>9 DEF DelayAndTest
<1>11. PICK l \in BOOLEAN : (l <=> w + d >= wait.budget) /\ wait' = [wait EXCEPT !.last = l]
  <2>1. CASE w + d >= wait.budget
    <3>1. (w + d >= wait.budget) = TRUE
      BY <2>1
    <3>2. wait' = [wait EXCEPT !.last = TRUE]
      BY <1>10, <3>1, Zenon
    <3>3. QED
      BY <2>1, <3>2, Zenon
  <2>2. CASE ~(w + d >= wait.budget)
    <3>1. (w + d >= wait.budget) = FALSE
      BY <2>2
    <3>2. wait' = [wait EXCEPT !.last = FALSE]
      BY <1>10, <3>1, Zenon
    <3>3. QED
      BY <2>2, <3>2, Zenon
  <2>3. QED
    BY <2>1, <2>2
<1>12. wait' \in [for : Loops \cup {"none", "server"}, start : 0 .. Wrap - 1, budget : Nat, last : BOOLEAN]
       /\ wait'.for = wait.for /\ wait'.start = wait.start /\ wait'.budget = wait.budget /\ wait'.last = l
  BY <1>11 DEF IInv, Typed
<1>13. Elapsed(wait.start)' = w + d /\ Elapsed(call.start)' = spent + d /\ Before' = Before
  BY <1>3, <1>8, <1>9, <1>12 DEF Elapsed, Before
<1>14. TypeOK'
  BY <1>8, <1>9, <1>12 DEF IInv, Typed, TypeOK, config
<1>15. Typed'
  BY <1>3, <1>8, <1>12, <1>14 DEF IInv, Typed
<1>16. Timed'
  BY <1>6, <1>8, <1>13 DEF IInv, Timed
<1>17. IF wait'.last THEN w + d \in wait'.budget .. wait'.budget + d ELSE w + d = 0 \/ w + d < wait'.budget
  BY <1>1, <1>3, <1>5, <1>11, <1>12
<1>18. Polls'
  BY <1>1, <1>8, <1>12, <1>13, <1>17 DEF IInv, Polls, DelayOf
<1>19. Asks' /\ Zoned'
  BY <1>8 DEF IInv, Asks, Zoned, config
<1>20. QED
  BY <1>15, <1>16, <1>18, <1>19 DEF IInv

\* One turn of a loop.
LEMMA InvPoll == TimeAssumption /\ IInv /\ Poll => IInv'
<1> SUFFICES ASSUME TimeAssumption, IInv, Poll PROVE IInv'
  OBVIOUS
<1>1. /\ pc = "poll" /\ UNCHANGED <<socket, clock, config>>
      /\ \/ LoopSucceeds /\ UNCHANGED now
         \/ LoopFails /\ UNCHANGED now
         \/ ~wait.last /\ DelayAndTest
  BY DEF Poll
<1>2. CASE LoopSucceeds /\ UNCHANGED now
  BY <1>1, <1>2, InvLoopSucceeds DEF config
<1>3. CASE LoopFails /\ UNCHANGED now
  <2>1. CASE call.name # wait.for /\ wait.for = "time"
    BY <1>1, <1>3, <2>1, InvStartNtp DEF LoopFails, config
  <2>2. CASE ~(call.name # wait.for /\ wait.for = "time")
    <3>1. Return(FALSE)
      BY <1>3, <2>2 DEF LoopFails
    <3>2. now' \in 0 .. Wrap - 1 /\ socket' = FALSE /\ clock' \in {"unset", "old", "set"}
      BY <1>1, <1>3 DEF IInv, Typed, TypeOK, Asks
    <3>3. QED
      BY <1>1, <3>1, <3>2, InvReturn DEF config
  <2>3. QED
    BY <2>1, <2>2
<1>4. CASE ~wait.last /\ DelayAndTest
  BY <1>1, <1>4, InvDelay
<1>5. QED
  BY <1>1, <1>2, <1>3, <1>4

\* The servers up to one are those before it and itself.
LEMMA OneMore ==
  ASSUME NEW names \in SUBSET Nat, NEW n \in Nat
  PROVE  /\ n \in names => {s \in names : s < n} \cup {n} = {s \in names : s <= n}
         /\ {s \in names : s <= n} = {s \in names : s < n + 1}
         /\ n \notin names => {s \in names : s < n} = {s \in names : s < n + 1}
<1>1. \A s \in names : (s <= n <=> s < n + 1) /\ (s <= n <=> s < n \/ s = n)
  OBVIOUS
<1>2. n \in names => {s \in names : s < n} \cup {n} = {s \in names : s <= n}
  BY <1>1
<1>3. {s \in names : s <= n} = {s \in names : s < n + 1}
  BY <1>1
<1>4. n \notin names => {s \in names : s < n} = {s \in names : s < n + 1}
  BY <1>1
<1>5. QED
  BY <1>2, <1>3, <1>4

\* The next server has its turn, or gets none.
LEMMA InvNextServer == TimeAssumption /\ IInv /\ NextServer => IInv'
<1> SUFFICES ASSUME TimeAssumption, IInv, NextServer PROVE IInv'
  OBVIOUS
<1>1. /\ pc = "servers" /\ UNCHANGED <<now, clock, config>> /\ call.name = "getLocalTime"
      /\ socket = FALSE /\ tried = {s \in named : s < server} /\ wait.for = "none"
      /\ now \in 0 .. Wrap - 1 /\ clock \in {"unset", "old", "set"}
      /\ call.ms \in Budgets /\ call.ms \in Nat /\ Elapsed(call.start) = spent /\ spent <= call.ms + Overrun /\ spent \in Nat
  BY DEF NextServer, IInv, Typed, TypeOK, Timed, Asks
<1>2. NServers \in Nat \ {0} /\ named \in SUBSET Nat /\ named \in SUBSET Servers /\ server \in 1 .. NServers + 1
  BY Bounds DEF IInv, Typed, TypeOK, Servers
<1>3. CASE Return(FALSE) /\ UNCHANGED socket
  BY <1>1, <1>3, InvReturn
<1>4. CASE /\ pc' = "servers" /\ server' = server + 1 /\ server \in Servers
           /\ tried' = {s \in named : s < server + 1} /\ UNCHANGED <<wait, socket, spent>> /\ Goes
  <2>1. server' \in 1 .. NServers + 1 /\ tried' \subseteq Servers
    <3>1. server' \in 1 .. NServers + 1
      BY <1>2, <1>4 DEF Servers
    <3>2. QED
      BY <1>2, <1>4, <3>1
  <2>2. TypeOK'
    BY <1>1, <1>4, <2>1 DEF IInv, Typed, TypeOK, config
  <2>3. Typed'
    BY <1>1, <1>4, <2>2 DEF IInv, Typed, Goes
  <2>4. Timed' /\ Polls'
    BY <1>1, <1>4 DEF IInv, Timed, Polls, Goes, Elapsed
  <2>5. Asks' /\ Zoned'
    BY <1>1, <1>4 DEF IInv, Asks, Zoned, Goes, config
  <2>6. QED
    BY <2>3, <2>4, <2>5 DEF IInv
<1>5. CASE server \in Servers \ named /\ server' = server + 1 /\ Goes /\ UNCHANGED <<pc, wait, socket, tried, spent>>
  BY <1>1, <1>2, <1>4, <1>5, OneMore DEF Servers
<1>6. CASE server \in named /\ Remaining >= MinAttempt /\ Try
  <2>1. tried' = {s \in named : s <= server} /\ tried' = {s \in named : s < server + 1} /\ server \in Servers
        /\ Goes /\ UNCHANGED spent
    BY <1>1, <1>2, <1>6, OneMore DEF Try, Servers
  <2>2. CASE server' = server + 1 /\ UNCHANGED <<pc, wait, socket>>
    BY <1>1, <1>4, <2>1, <2>2
  <2>3. CASE /\ pc' = "resolve" /\ socket' = TRUE /\ UNCHANGED server
             /\ wait' = [Idle EXCEPT !.for = "server", !.start = now, !.budget = Smaller(Remaining, ServerBudget)]
    <3>1. /\ Remaining \in Nat /\ MinAttempt \in Nat \ {0} /\ ServerBudget \in Nat /\ call.ms - spent = Remaining
          /\ spent <= call.ms - MinAttempt
      BY <1>1, <1>6, RemainingIs, Bounds
    <3>2. PICK budget \in Nat : budget = Smaller(Remaining, ServerBudget) /\ budget <= Remaining
      BY <3>1 DEF Smaller
    <3>3. /\ wait' \in [for : Loops \cup {"none", "server"}, start : 0 .. Wrap - 1, budget : Nat, last : BOOLEAN]
          /\ wait'.for = "server" /\ wait'.start = now /\ wait'.budget = budget
      BY <1>1, <2>3, <3>2 DEF Idle
    <3>4. Elapsed(wait.start)' = 0
      BY <1>1, <3>3, NoneElapsed DEF Elapsed
    <3>5. Before' = spent
      BY <1>1, <2>1, <3>4 DEF Before
    <3>6. TypeOK'
      BY <1>1, <1>2, <2>1, <2>3, <3>3 DEF IInv, Typed, TypeOK, config
    <3>7. Typed'
      BY <1>1, <2>1, <2>3, <3>3, <3>6 DEF IInv, Typed, Goes
    <3>8. Timed' /\ Polls'
      BY <1>1, <2>1, <2>3 DEF IInv, Timed, Polls, Goes, Elapsed
    <3>9. Asks' /\ Zoned'
      BY <1>1, <1>6, <2>1, <2>3, <3>1, <3>2, <3>3, <3>4, <3>5 DEF IInv, Asks, Zoned, Goes, config
    <3>10. QED
      BY <3>7, <3>8, <3>9 DEF IInv
  <2>4. QED
    BY <1>6, <2>2, <2>3 DEF Try
<1>7. QED
  BY <1>3, <1>5, <1>6 DEF NextServer

\* A server whose turn is over.
LEMMA InvGiveUp ==
  ASSUME TimeAssumption, IInv, pc \in {"resolve", "udp"}, GiveUpServer, NEW d \in Nat,
         now' = (now + d) % Wrap, spent' = spent + d, spent + d <= call.ms + Overrun, UNCHANGED <<clock, config>>
  PROVE  IInv'
<1>1. /\ spent \in Nat /\ call.ms \in Nat /\ call.start \in 0 .. Wrap - 1 /\ call.ms \in Budgets
      /\ Elapsed(call.start) = spent /\ call.name = "getLocalTime"
      /\ server \in named /\ tried = {s \in named : s <= server} /\ tried \subseteq Servers
  BY DEF IInv, Typed, TypeOK, Timed, Asks
<1>2. NServers \in Nat \ {0} /\ named \in SUBSET Nat /\ server \in Servers /\ 0 \in 0 .. Wrap - 1
  BY <1>1, Bounds DEF IInv, Typed, TypeOK, Servers
<1>3. spent + d < Wrap
  BY <1>1, Bounds
<1>4. now' \in 0 .. Wrap - 1 /\ (now' - call.start) % Wrap = spent + d
  BY <1>1, <1>3, Passes
<1>5. /\ pc' = "servers" /\ server' = server + 1 /\ socket' = FALSE /\ wait' = Idle
      /\ UNCHANGED <<call, result, tried>>
  BY DEF GiveUpServer, Goes
<1>6. server' \in 1 .. NServers + 1 /\ tried' = {s \in named : s < server + 1}
  BY <1>1, <1>2, <1>5, OneMore DEF Servers
<1>7. TypeOK'
  BY <1>1, <1>4, <1>5, <1>6 DEF IInv, Typed, TypeOK, config, Idle
<1>8. Idle \in [for : Loops \cup {"none", "server"}, start : 0 .. Wrap - 1, budget : Nat, last : BOOLEAN] /\ Idle.for = "none"
  BY <1>2 DEF Idle
<1>9. Typed'
  <2>1. spent' \in Nat
    BY <1>1
  <2>2. socket' \in BOOLEAN
    BY <1>5, Zenon
  <2>3. QED
    BY <1>5, <1>7, <1>8, <2>1, <2>2 DEF IInv, Typed
<1>10. Timed' /\ Polls'
  BY <1>1, <1>4, <1>5 DEF Timed, Polls, Elapsed
<1>11. Asks' /\ Zoned'
  BY <1>1, <1>5, <1>6, <1>8 DEF IInv, Asks, Zoned, config
<1>12. QED
  BY <1>9, <1>10, <1>11 DEF IInv

\* An attempt that goes on: in the next phase, and with more time spent.
LEMMA InvAttempt ==
  ASSUME TimeAssumption, IInv, pc \in {"resolve", "udp"}, pc' = "udp", NEW d \in Nat,
         now' = (now + d) % Wrap, spent' = spent + d, spent + d <= call.ms + Overrun,
         UNCHANGED <<call, result, server, socket, wait, clock, tried, config>>
  PROVE  IInv'
<1>1. PICK w \in Int : w = Elapsed(wait.start)
  BY Bounds DEF IInv, Typed, TypeOK, Elapsed
<1>2. /\ spent \in Nat /\ call.ms \in Nat /\ call.start \in 0 .. Wrap - 1 /\ call.ms \in Budgets
      /\ wait.start \in 0 .. Wrap - 1 /\ Elapsed(call.start) = spent /\ Before = spent - w /\ spent - w >= 0
  BY <1>1 DEF IInv, Typed, TypeOK, Timed, Asks, Before
<1>3. spent + d < Wrap
  BY <1>2, Bounds
<1>4. now' \in 0 .. Wrap - 1 /\ (now' - call.start) % Wrap = spent + d /\ (now' - wait.start) % Wrap = w + d
  BY <1>1, <1>2, <1>3, Passes
<1>5. Before' = Before
  BY <1>1, <1>2, <1>4 DEF Before, Elapsed
<1>6. TypeOK'
  BY <1>4 DEF IInv, Typed, TypeOK, config
<1>7. Typed'
  <2>1. spent' \in Nat
    BY <1>2
  <2>2. QED
    BY <1>6, <2>1 DEF IInv, Typed
<1>8. Timed' /\ Polls'
  BY <1>2, <1>4 DEF IInv, Timed, Polls, Elapsed
<1>9. Asks' /\ Zoned'
  BY <1>5 DEF IInv, Asks, Zoned, config
<1>10. QED
  BY <1>7, <1>8, <1>9 DEF IInv

\* A name is resolved.
LEMMA InvResolve == TimeAssumption /\ IInv /\ Resolve => IInv'
<1> SUFFICES ASSUME TimeAssumption, IInv, Resolve PROVE IInv'
  OBVIOUS
<1>1. pc = "resolve" /\ UNCHANGED <<clock, config>> /\ MaxDns \in Nat
  BY Bounds DEF Resolve
<1>2. PICK d \in 0 .. MaxDns : now' = (now + d) % Wrap /\ spent' = spent + d
  BY DEF Resolve
<1>3. spent + d <= call.ms + Overrun /\ d \in Nat
  <2>1. /\ spent \in Nat /\ call.ms \in Nat /\ Elapsed(wait.start) = 0 /\ Before = spent - Elapsed(wait.start)
        /\ Before <= call.ms - MinAttempt /\ Overrun \in Int /\ Overrun >= MaxDns - MinAttempt /\ MinAttempt \in Nat
    BY <1>1, Bounds DEF IInv, Typed, Asks, Before
  <2>2. QED
    BY <1>1, <1>2, <2>1
<1>4. CASE GiveUpServer
  BY <1>1, <1>2, <1>3, <1>4, InvGiveUp
<1>5. CASE pc' = "udp" /\ Goes /\ UNCHANGED <<server, socket, wait, tried>>
  BY <1>1, <1>2, <1>3, <1>5, InvAttempt DEF Goes
<1>6. QED
  BY <1>4, <1>5 DEF Resolve

\* A server's turn that ends now has taken no more time.
LEMMA InvGiveUpNow ==
  ASSUME TimeAssumption, IInv, pc = "udp", GiveUpServer, UNCHANGED <<now, spent, clock, config>>
  PROVE  IInv'
<1>1. spent \in Nat /\ spent <= call.ms + Overrun /\ now \in 0 .. Wrap - 1 /\ Wrap \in Nat \ {0}
  BY Bounds DEF IInv, Typed, TypeOK, Timed
<1>2. (now + 0) % Wrap = now /\ spent + 0 = spent /\ 0 \in Nat
  BY <1>1
<1>3. now' = (now + 0) % Wrap /\ spent' = spent + 0 /\ spent + 0 <= call.ms + Overrun
  BY <1>1, <1>2
<1>4. QED
  BY <1>2, <1>3, InvGiveUp

\* The answer is waited for, comes or does not come.
LEMMA InvAwait == TimeAssumption /\ IInv /\ (AwaitAnswer \/ AnswerTimesOut) => IInv'
<1> SUFFICES ASSUME TimeAssumption, IInv, AwaitAnswer \/ AnswerTimesOut PROVE IInv'
  OBVIOUS
<1>1. pc = "udp" /\ UNCHANGED config
  BY DEF AwaitAnswer, AnswerTimesOut
<1>2. CASE AnswerTimesOut
  BY <1>1, <1>2, InvGiveUpNow DEF AnswerTimesOut
<1>3. CASE AwaitAnswer /\ TakeAnswer /\ UNCHANGED now
  <2>1. CASE GiveUpServer /\ UNCHANGED <<clock, spent>>
    BY <1>1, <1>3, <2>1, InvGiveUpNow
  <2>2. CASE clock' = "set" /\ socket' = FALSE /\ Return(TRUE)
    <3>1. now' \in 0 .. Wrap - 1
      BY <1>3 DEF IInv, Typed, TypeOK
    <3>2. QED
      BY <1>1, <2>2, <3>1, InvReturn
  <2>3. QED
    BY <1>3, <2>1, <2>2 DEF TakeAnswer
<1>4. CASE /\ AwaitAnswer /\ now' = (now + UdpPoll) % Wrap /\ spent' = spent + UdpPoll
           /\ Goes /\ UNCHANGED <<pc, server, socket, wait, clock, tried>>
  <2>1. UdpPoll \in Nat /\ NetPoll \in Nat /\ UdpPoll <= NetPoll /\ Overrun \in Int /\ Overrun >= 2 * NetPoll
    BY Bounds
  <2>2. PICK w \in Int : w = Elapsed(wait.start)
    BY Bounds DEF IInv, Typed, TypeOK, Elapsed
  <2>3. /\ w < wait.budget /\ Before = spent - w /\ Before + wait.budget <= call.ms
        /\ wait.budget \in Nat /\ spent \in Nat /\ call.ms \in Nat
    BY <1>1, <1>4, <2>2 DEF AwaitAnswer, IInv, Typed, Asks, Before
  <2>4. spent + UdpPoll <= call.ms + Overrun
    BY <2>1, <2>2, <2>3
  <2>5. QED
    BY <1>1, <1>4, <2>1, <2>4, InvAttempt DEF Goes
<1>5. QED
  BY <1>2, <1>3, <1>4 DEF AwaitAnswer

\* The network tells the time.
LEMMA InvNitz == TimeAssumption /\ IInv /\ Nitz => IInv'
<1> SUFFICES ASSUME TimeAssumption, IInv, Nitz PROVE IInv'
  OBVIOUS
<1>1. 0 \in -West .. East
  BY Bounds
<1>2. Typed'
  BY <1>1 DEF IInv, Typed, TypeOK, Nitz
<1>3. Timed' /\ Polls' /\ Asks' /\ Zoned'
  BY DEF IInv, Timed, Polls, Before, Asks, Zoned, Nitz, Elapsed
<1>4. QED
  BY <1>2, <1>3 DEF IInv

\* Every step preserves the invariant.
LEMMA InvNext == TimeAssumption /\ IInv /\ [Next]_vars => IInv'
<1> SUFFICES ASSUME TimeAssumption, IInv, [Next]_vars PROVE IInv'
  OBVIOUS
<1>1. CASE Step
  BY <1>1, InvPoll, InvNextServer, InvResolve, InvAwait DEF Step
<1>2. CASE Nitz
  BY <1>2, InvNitz
<1>3. CASE \E ms \in Budgets : GetLocalTime(ms) \/ \E loop \in Loops : WaitFor(loop, ms)
  BY <1>3, InvGetLocalTime, InvWaitFor
<1>4. CASE \E requested \in SUBSET Servers : ConfigureUnknown(requested) \/ \E s \in Offsets : Configure(s, requested)
  BY <1>4, InvConfigure
<1>5. CASE UNCHANGED vars
  BY <1>5 DEF vars, config, IInv, Typed, TypeOK, Timed, Polls, Before, Asks, Zoned, Elapsed
<1>6. QED
  BY <1>1, <1>2, <1>3, <1>4, <1>5 DEF Next

-----------------------------------------------------------------------------
(* The theorems about the time *)

\* The invariant says what TimeInv promises.
LEMMA InvImplies == TimeAssumption /\ IInv => TimeInv
<1> SUFFICES ASSUME TimeAssumption, IInv PROVE TimeInv
  OBVIOUS
<1>1. /\ TypeOK /\ (pc # "idle" => spent <= call.ms + Overrun)
      /\ (socket <=> pc \in {"resolve", "udp"}) /\ (pc = "udp" => tried = {s \in named : s <= server})
  BY DEF IInv, Typed, Timed, Asks
<1>2. ASSUME NEW s \in -Quarter * (West + 1) .. Quarter * (East + 1)
      PROVE  LET q == RoundQuarterHours(s) * Quarter
             IN  /\ ParseFixedOffsetTz(PosixText(s)) = s
                 /\ 2 * (s - q) \in -Quarter .. Quarter \/ RoundQuarterHours(s) \in {-West, East}
  BY ZoneReadsBack, NearestQuarter
<1>3. QED
  BY <1>1, <1>2 DEF TimeInv

\* A call about the time ends within its budget and a fixed excess, also when
\* millis() wraps meanwhile; the socket is open only while a server is asked; zones
\* are read with the right sign and rounded to the nearest quarter.
THEOREM TimeSound == TimeAssumption => (Spec => []TimeInv)
<1> SUFFICES ASSUME TimeAssumption PROVE Spec => []TimeInv
  OBVIOUS
<1>1. Init => IInv
  BY InvInit
<1>2. IInv /\ [Next]_vars => IInv'
  BY InvNext
<1>3. IInv => TimeInv
  BY InvImplies
<1>4. QED
  BY <1>1, <1>2, <1>3, PTL DEF Spec

\* What a call that returns may say.
Honest ==
  pc # "idle" /\ pc' = "idle" =>
    /\ result'.ok /\ call.name = "getLocalTime" =>
         clock' = "set" /\ (asked # {} => result'.shift \in asked)
    /\ result'.ok /\ call.name \in {"time", "network time"} => clock # "unset"
    /\ ~result'.ok =>
         \/ spent >= call.ms
         \/ /\ call.name = "getLocalTime"
            /\ spent > call.ms - MinAttempt \/ named \subseteq tried

\* A call that succeeds.
LEMMA HonestSuccess ==
  ASSUME IInv, Return(TRUE), call.name = "getLocalTime" => clock' = "set",
         call.name \in {"time", "network time"} => clock # "unset"
  PROVE  Honest
<1>1. result'.ok = TRUE /\ result'.shift = Shift
  BY DEF Return
<1>2. asked # {} => Shift \in asked
  BY DEF IInv, Zoned, Shift
<1>3. QED
  BY <1>1, <1>2 DEF Honest

\* A call that fails.
LEMMA HonestFailure ==
  ASSUME Return(FALSE),
         \/ spent >= call.ms
         \/ /\ call.name = "getLocalTime"
            /\ spent > call.ms - MinAttempt \/ named \subseteq tried
  PROVE  Honest
<1>1. result'.ok = FALSE
  BY DEF Return
<1>2. QED
  BY <1>1 DEF Honest

\* A call that ends before any server is asked.
LEMMA HonestStart ==
  ASSUME TimeAssumption, IInv, pc = "poll", call.name # wait.for, StartNtp
  PROVE  Honest
<1>1. call.name = "getLocalTime" /\ spent \in Nat /\ call.ms \in Nat /\ MinAttempt \in Nat \ {0}
  BY Bounds DEF IInv, Typed, Polls
<1>2. CASE CanStartNtp(Remaining)
  BY <1>2 DEF StartNtp, Wait, Honest
<1>3. CASE ~CanStartNtp(Remaining)
  <2>1. named = {} \/ Remaining < MinAttempt
    BY <1>1, <1>3, RemainingIs DEF CanStartNtp
  <2>2. named \subseteq tried \/ spent > call.ms - MinAttempt
    BY <1>1, <2>1, RemainingIs
  <2>3. Return(FALSE)
    BY <1>3 DEF StartNtp
  <2>4. QED
    BY <1>1, <2>2, <2>3, HonestFailure
<1>4. QED
  BY <1>2, <1>3

\* A loop answers honestly.
LEMMA HonestPoll == TimeAssumption /\ IInv /\ Poll => Honest
<1> SUFFICES ASSUME TimeAssumption, IInv, Poll PROVE Honest
  OBVIOUS
<1>1. pc = "poll" /\ UNCHANGED clock /\ wait.for \in Loops
  BY DEF Poll, IInv, Polls
<1>2. PICK ready \in Answers(wait.for) :
        \/ ready /\ LoopSucceeds
        \/ ~ready /\ wait.last /\ LoopFails
        \/ DelayAndTest
  BY DEF Poll
<1>3. CASE ready /\ LoopSucceeds
  <2>1. CASE Return(TRUE) /\ (call.name = wait.for \/ (wait.for = "time" /\ clock = "set"))
    <3>1. wait.for \in {"time", "network time"} => clock # "unset"
      <4>1. ASSUME NEW t \in TimeStatus PROVE t.synced = (clock # "unset")
        BY DEF TimeStatus
      <4>2. CASE wait.for = "time"
        <5>1. Answers(wait.for) = {t.synced : t \in TimeStatus}
          BY <4>2 DEF Answers
        <5>2. PICK t \in TimeStatus : ready = t.synced
          BY <5>1
        <5>3. QED
          BY <1>3, <4>1, <5>2, Zenon
      <4>3. CASE wait.for = "network time"
        <5>1. Answers(wait.for) = {t.synced /\ t.nitzSynced : t \in TimeStatus}
          BY <4>3 DEF Answers
        <5>2. PICK t \in TimeStatus : ready = (t.synced /\ t.nitzSynced)
          BY <5>1
        <5>3. QED
          BY <1>3, <4>1, <5>2, Zenon
      <4>4. QED
        BY <4>2, <4>3
    <3>2. call.name # wait.for => call.name = "getLocalTime"
      BY <1>1 DEF IInv, Polls
    <3>3. call.name = "getLocalTime" => clock' = "set"
      BY <1>1, <2>1 DEF Loops
    <3>4. QED
      BY <2>1, <3>1, <3>2, <3>3, HonestSuccess
  <2>2. CASE StartNtp /\ call.name # wait.for /\ wait.for = "time"
    BY <1>1, <2>2, HonestStart
  <2>3. CASE Wait("pdp", now, Remaining)
    BY <2>3 DEF Wait, Honest
  <2>4. CASE pc' = "servers"
    BY <2>4 DEF Honest
  <2>5. QED
    BY <1>3, <2>1, <2>2, <2>3, <2>4, LoopGoesOn
<1>4. CASE wait.last /\ LoopFails
  <2>1. CASE call.name # wait.for /\ wait.for = "time"
    BY <1>1, <1>4, <2>1, HonestStart DEF LoopFails
  <2>2. CASE ~(call.name # wait.for /\ wait.for = "time")
    <3>1. Return(FALSE)
      BY <1>4, <2>2 DEF LoopFails
    <3>2. PICK w \in Int : w = Elapsed(wait.start)
      BY Bounds DEF IInv, Typed, TypeOK, Elapsed
    <3>3. /\ spent \in Nat /\ call.ms \in Nat /\ wait.budget \in Nat /\ Before = spent - w
          /\ w >= wait.budget
      BY <1>1, <1>4, <3>2 DEF IInv, Typed, Polls, Before
    <3>4. spent >= call.ms
      <4>1. CASE call.name = wait.for
        BY <1>1, <3>2, <3>3, <4>1 DEF IInv, Polls
      <4>2. CASE call.name # wait.for
        <5>1. CASE wait.for = "network"
          BY <1>1, <3>2, <3>3, <4>2, <5>1 DEF IInv, Polls
        <5>2. CASE wait.for = "pdp"
          <6>1. IF spent - w <= call.ms THEN spent - w + wait.budget = call.ms ELSE wait.budget = 0
            BY <1>1, <3>3, <4>2, <5>2 DEF IInv, Polls
          <6>2. w \in 0 .. Wrap - 1
            BY <3>2, Bounds DEF Elapsed, IInv, Typed, TypeOK
          <6>3. QED
            BY <3>2, <3>3, <6>1, <6>2
        <5>3. QED
          BY <1>1, <2>2, <4>2, <5>1, <5>2 DEF IInv, Polls, OwnLoops
      <4>3. QED
        BY <4>1, <4>2
    <3>5. QED
      BY <3>1, <3>4, HonestFailure
  <2>3. QED
    BY <2>1, <2>2
<1>5. CASE DelayAndTest
  BY <1>1, <1>5 DEF DelayAndTest, Honest
<1>6. QED
  BY <1>2, <1>3, <1>4, <1>5

\* So do the attempts at the servers.
LEMMA HonestServers == TimeAssumption /\ IInv /\ (NextServer \/ Resolve \/ AwaitAnswer \/ AnswerTimesOut) => Honest
<1> SUFFICES ASSUME TimeAssumption, IInv, NextServer \/ Resolve \/ AwaitAnswer \/ AnswerTimesOut PROVE Honest
  OBVIOUS
<1>1. CASE NextServer
  <2>1. CASE (server > NServers \/ Remaining < MinAttempt) /\ Return(FALSE)
    <3>1. /\ pc = "servers" /\ call.name = "getLocalTime" /\ tried = {s \in named : s < server}
          /\ named \in SUBSET (1 .. NServers) /\ NServers \in Nat /\ server \in 1 .. NServers + 1
          /\ spent \in Nat /\ call.ms \in Nat /\ MinAttempt \in Nat \ {0}
      BY <1>1, Bounds DEF NextServer, IInv, Asks, Typed, TypeOK, Servers
    <3>2. server > NServers => named \subseteq tried
      BY <3>1
    <3>3. Remaining < MinAttempt => spent > call.ms - MinAttempt
      BY <3>1, RemainingIs
    <3>4. QED
      BY <2>1, <3>1, <3>2, <3>3, HonestFailure
  <2>2. CASE UNCHANGED pc
    BY <2>2 DEF Honest
  <2>3. CASE Try
    BY <1>1, <2>3 DEF Try, Honest
  <2>4. QED
    BY <1>1, <2>1, <2>2, <2>3 DEF NextServer
<1>2. CASE Resolve \/ AnswerTimesOut
  BY <1>2 DEF Resolve, AnswerTimesOut, GiveUpServer, Honest
<1>3. CASE AwaitAnswer
  <2>1. CASE clock' = "set" /\ Return(TRUE)
    <3>1. call.name = "getLocalTime"
      BY <1>3 DEF AwaitAnswer, IInv, Asks
    <3>2. QED
      BY <2>1, <3>1, HonestSuccess
  <2>2. CASE pc' # "idle"
    BY <2>2 DEF Honest
  <2>3. QED
    BY <1>3, <2>1, <2>2 DEF AwaitAnswer, TakeAnswer, GiveUpServer
<1>4. QED
  BY <1>1, <1>2, <1>3

\* Every step is honest.
LEMMA HonestNext == TimeAssumption /\ IInv /\ [Next]_vars => Honest
<1> SUFFICES ASSUME TimeAssumption, IInv, [Next]_vars PROVE Honest
  OBVIOUS
<1>1. CASE Step
  BY <1>1, HonestPoll, HonestServers DEF Step
<1>2. CASE Nitz \/ UNCHANGED vars
  BY <1>2 DEF Nitz, vars, Honest
<1>3. CASE \E ms \in Budgets : GetLocalTime(ms) \/ \E loop \in Loops : WaitFor(loop, ms)
  BY <1>3 DEF GetLocalTime, WaitFor, Honest
<1>4. CASE \E requested \in SUBSET Servers : ConfigureUnknown(requested) \/ \E s \in Offsets : Configure(s, requested)
  BY <1>4 DEF Configure, ConfigureUnknown, Honest
<1>5. QED
  BY <1>1, <1>2, <1>3, <1>4 DEF Next

\* getLocalTime is true only with a valid clock and the zone that was asked for,
\* and no call about the time fails before its time is up or its servers are.
THEOREM TimeHonest == TimeAssumption => (Spec => AnswersHonestly)
<1> SUFFICES ASSUME TimeAssumption PROVE Spec => AnswersHonestly
  OBVIOUS
<1>1. Init => IInv
  BY InvInit
<1>2. IInv /\ [Next]_vars => IInv'
  BY InvNext
<1>3. IInv /\ [Next]_vars => [Honest]_vars
  BY HonestNext
<1>4. QED
  BY <1>1, <1>2, <1>3, PTL DEF Spec, AnswersHonestly, Honest

\* The other parts of Modem leave the time alone.
LEMMA TimeRuns == ModemSpec => Spec
<1>1. ModemInit => Init
  BY DEF ModemInit
<1>2. [TimeNext \/ StatusNext \/ ReadingsNext]_allVars => [Next]_vars
  BY DEF TimeNext, StatusNext, ReadingsNext, allVars
<1>3. QED
  BY <1>1, <1>2, PTL DEF ModemSpec, Spec

\* The time keeps its budget beside the other parts.
THEOREM ModemTime == ModemSpec => []TimeInv
<1>1. Spec => []TimeInv
  BY TimeSound, ModemAssumption
<1>2. QED
  BY <1>1, TimeRuns, PTL

\* And its answers are honest.
THEOREM ModemHonest == ModemSpec => AnswersHonestly
<1>1. Spec => AnswersHonestly
  BY TimeHonest, ModemAssumption
<1>2. QED
  BY <1>1, TimeRuns, PTL

-----------------------------------------------------------------------------
(* The status: the inductive invariant of ModemStatus *)

Natives ==
  [ps : BOOLEAN, registered : BOOLEAN, valid : BOOLEAN, ready : BOOLEAN, hasIPv4 : BOOLEAN,
   addr : Nat, dns : Seq(Nat)]

\* The two name servers are there, whether or not they count.
StatusTyped ==
  /\ modem \in Status!Modems /\ during \subseteq Status!Modems
  /\ at \in {"idle", "ps", "cereg", "net", "copy"}
  /\ native \in Natives /\ Len(native.dns) <= 2
  /\ status.dns \in Seq(Nat) /\ Len(status.dns) = 2 /\ status.dnsCount \in 0 .. 2

\* What a status s with the name servers dns says of the network was so of info.
SaysNetwork(s, dns, info) ==
  IF info = NoInfo THEN s.valid = FALSE /\ s.ready = FALSE /\ s.hasIPv4 = FALSE
  ELSE /\ s.valid = TRUE /\ s.ready = info.active
       /\ s.hasIPv4 = Status!HasIpv4(info)
       /\ s.hasIPv4 => s.addr = info.addr
       /\ Len(dns) <= Len(info.dns) /\ \A i \in 1 .. Len(dns) : dns[i] = info.dns[i]

\* The modem is in one of the states it went through, and what was read so far
\* was so in one of them; what was not read yet is zero.
StatusRead ==
  /\ at # "idle" => modem \in during
  /\ at \in {"cereg", "net", "copy"} => \E m \in during : native.ps = m.ps
  /\ at \in {"net", "copy"} => \E m \in during : native.registered = Status!Registered(m.cereg)
  /\ at \in {"ps", "cereg", "net"} =>
       native.valid = FALSE /\ native.ready = FALSE /\ native.hasIPv4 = FALSE /\ native.dns = <<>>
  /\ at = "copy" => \E m \in during : SaysNetwork(native, native.dns, m.info)

\* The status the sketch has is the one read last.
StatusKept ==
  at = "idle" /\ during # {} =>
    /\ \E m \in during : status.ps = m.ps
    /\ \E m \in during : status.registered = Status!Registered(m.cereg)
    /\ \E m \in during : SaysNetwork(status, SubSeq(status.dns, 1, status.dnsCount), m.info)

StatusInv == StatusTyped /\ StatusRead /\ StatusKept

LEMMA StatusConstants ==
  /\ NoInfo \notin Infos
  /\ \A info \in Infos : /\ info.active \in BOOLEAN /\ info.v4 \in BOOLEAN /\ info.cid \in BOOLEAN
                         /\ info.addr \in Nat /\ info.dns \in Seq(Nat)
<1>1. /\ NoInfo \notin Infos
      /\ \A info \in Infos : info \in [active : BOOLEAN, v4 : BOOLEAN, cid : BOOLEAN,
                                       addr : Nat \ {0}, dns : Seq(Nat \ {0})]
  BY ModemAssumption DEF Status!StatusAssumption
<1>2. \A s : s \in Seq(Nat \ {0}) => s \in Seq(Nat)
  BY SMT
<1>3. \A info \in Infos : /\ info.active \in BOOLEAN /\ info.v4 \in BOOLEAN /\ info.cid \in BOOLEAN
                          /\ info.addr \in Nat /\ info.dns \in Seq(Nat \ {0})
  BY <1>1, Zenon
<1>4. QED
  BY <1>1, <1>2, <1>3

\* What a status with the servers dns has in it.
LEMMA CopiedFields ==
  \A dns : LET s == Status!Copied(dns) IN
    /\ s.ps = native.ps /\ s.registered = native.registered /\ s.valid = native.valid
    /\ s.ready = native.ready /\ s.hasIPv4 = native.hasIPv4 /\ s.addr = native.addr
    /\ s.dns = dns /\ s.dnsCount = Len(native.dns)
  BY Zenon DEF Status!Copied

LEMMA ZeroFields ==
  /\ Status!NativeZero \in Natives /\ Len(Status!NativeZero.dns) = 0
  /\ Status!NativeZero.valid = FALSE /\ Status!NativeZero.ready = FALSE
  /\ Status!NativeZero.hasIPv4 = FALSE /\ Status!NativeZero.dns = <<>>
<1>1. Status!NativeZero.dns = <<>> /\ <<>> \in Seq(Nat) /\ Len(<<>>) = 0
  BY DEF Status!NativeZero
<1>2. 0 \in Nat
  OBVIOUS
<1>3. Status!NativeZero \in Natives
  BY <1>1, <1>2, Zenon DEF Status!NativeZero, Natives
<1>4. QED
  BY <1>1, <1>3, Zenon DEF Status!NativeZero

LEMMA StatusInit == Status!Init => StatusInv
<1> SUFFICES ASSUME Status!Init PROVE StatusInv
  OBVIOUS
<1>1. modem \in Status!Modems /\ at = "idle" /\ native = Status!NativeZero /\ during = {}
  BY DEF Status!Init
<1>2. status = Status!Copied(<<0, 0>>)
  BY DEF Status!Init
<1>3. status.dns = <<0, 0>> /\ status.dnsCount = Len(native.dns)
  BY <1>2, CopiedFields, Zenon
<1>4. <<0, 0>> \in Seq(Nat) /\ Len(<<0, 0>>) = 2
  OBVIOUS
<1>5. StatusTyped
  BY <1>1, <1>3, <1>4, ZeroFields DEF StatusTyped
<1>6. QED
  BY <1>1, <1>5 DEF StatusInv, StatusRead, StatusKept

\* The modem goes on: more states are there to be read.
LEMMA StatusModemStep == StatusInv /\ Status!ModemStep => StatusInv'
<1> SUFFICES ASSUME StatusInv, Status!ModemStep PROVE StatusInv'
  OBVIOUS
<1>1. /\ at # "idle" /\ modem' \in Status!Modems /\ during' = during \cup {modem'}
      /\ at' = at /\ native' = native /\ status' = status
  BY DEF Status!ModemStep
<1>2. StatusTyped'
  BY <1>1 DEF StatusInv, StatusTyped
<1>3. StatusRead'
  BY <1>1, Zenon DEF StatusInv, StatusRead, SaysNetwork
<1>4. StatusKept'
  BY <1>1 DEF StatusKept
<1>5. QED
  BY <1>2, <1>3, <1>4 DEF StatusInv

LEMMA StatusGetStatus == StatusInv /\ Status!GetStatus => StatusInv'
<1> SUFFICES ASSUME StatusInv, Status!GetStatus PROVE StatusInv'
  OBVIOUS
<1>1. /\ at' = "ps" /\ modem' \in Status!Modems /\ during' = {modem'}
      /\ native' = Status!NativeZero /\ status' = status
  BY DEF Status!GetStatus
<1>2. StatusTyped'
  BY <1>1, ZeroFields DEF StatusInv, StatusTyped
<1>3. StatusRead'
  BY <1>1, ZeroFields DEF StatusRead
<1>4. QED
  BY <1>1, <1>2, <1>3 DEF StatusInv, StatusKept

LEMMA StatusReadPs == StatusInv /\ Status!ReadPs => StatusInv'
<1> SUFFICES ASSUME StatusInv, Status!ReadPs PROVE StatusInv'
  OBVIOUS
<1>1. /\ at = "ps" /\ at' = "cereg" /\ native' = [native EXCEPT !.ps = modem.ps]
      /\ modem' = modem /\ status' = status /\ during' = during
  BY DEF Status!ReadPs
<1>2. native \in Natives /\ modem \in Status!Modems /\ modem \in during
  BY <1>1 DEF StatusInv, StatusTyped, StatusRead
<1>3. modem.ps \in BOOLEAN
  BY <1>2, Zenon DEF Status!Modems
<1>4. /\ native' \in Natives /\ native'.ps = modem.ps /\ native'.valid = native.valid
      /\ native'.ready = native.ready /\ native'.hasIPv4 = native.hasIPv4 /\ native'.dns = native.dns
  BY <1>1, <1>2, <1>3, Zenon DEF Natives
<1>5. StatusTyped'
  BY <1>1, <1>4 DEF StatusInv, StatusTyped
<1>6. StatusRead'
  BY <1>1, <1>2, <1>4 DEF StatusInv, StatusRead
<1>7. QED
  BY <1>1, <1>5, <1>6 DEF StatusInv, StatusKept

LEMMA StatusReadCereg == StatusInv /\ Status!ReadCereg => StatusInv'
<1> SUFFICES ASSUME StatusInv, Status!ReadCereg PROVE StatusInv'
  OBVIOUS
<1>1. /\ at = "cereg" /\ at' = "net" /\ modem' = modem /\ status' = status /\ during' = during
      /\ native' = [native EXCEPT !.registered = Status!Registered(modem.cereg)]
  BY DEF Status!ReadCereg
<1>2. native \in Natives /\ modem \in during
  BY <1>1 DEF StatusInv, StatusTyped, StatusRead
<1>3. Status!Registered(modem.cereg) \in BOOLEAN
  <2>1. CASE modem.cereg \in {"home", "roaming"}
    <3>1. Status!Registered(modem.cereg) = TRUE
      BY <2>1, Zenon DEF Status!Registered
    <3>2. QED
      BY <3>1
  <2>2. CASE ~(modem.cereg \in {"home", "roaming"})
    <3>1. ~Status!Registered(modem.cereg)
      BY <2>2, Zenon DEF Status!Registered
    <3>3. (modem.cereg \in {"home", "roaming"}) = FALSE
      BY <2>2
    <3>4. Status!Registered(modem.cereg) = FALSE
      BY <3>3, Zenon DEF Status!Registered
    <3>2. QED
      BY <3>4
  <2>3. QED
    BY <2>1, <2>2
<1>4. /\ native' \in Natives /\ native'.registered = Status!Registered(modem.cereg)
      /\ native'.ps = native.ps /\ native'.valid = native.valid
      /\ native'.ready = native.ready /\ native'.hasIPv4 = native.hasIPv4 /\ native'.dns = native.dns
  BY <1>1, <1>2, <1>3, Zenon DEF Natives
<1>5. StatusTyped'
  BY <1>1, <1>4 DEF StatusInv, StatusTyped
<1>6. StatusRead'
  BY <1>1, <1>2, <1>4 DEF StatusInv, StatusRead
<1>7. QED
  BY <1>1, <1>5, <1>6 DEF StatusInv, StatusKept

\* Without a network the rest stays zero; with one, what it says is copied, and
\* two servers of its list.
LEMMA StatusReadNet == StatusInv /\ Status!ReadNet => StatusInv'
<1> SUFFICES ASSUME StatusInv, Status!ReadNet PROVE StatusInv'
  OBVIOUS
<1>1. at = "net" /\ at' = "copy" /\ modem' = modem /\ status' = status /\ during' = during
  BY DEF Status!ReadNet
<1>2. native \in Natives /\ modem \in Status!Modems /\ modem \in during
  BY <1>1 DEF StatusInv, StatusTyped, StatusRead
<1>3. modem.info \in Infos \cup {NoInfo}
  BY <1>2, Zenon DEF Status!Modems
<1>4. PICK info : info = modem.info
  OBVIOUS
<1>5. /\ native' \in Natives /\ Len(native'.dns) <= 2
      /\ native'.ps = native.ps /\ native'.registered = native.registered
      /\ SaysNetwork(native', native'.dns, info)
  <2>1. CASE info = NoInfo
    <3>1. native' = native
      BY <1>4, <2>1 DEF Status!ReadNet
    <3>2. /\ native.valid = FALSE /\ native.ready = FALSE /\ native.hasIPv4 = FALSE
          /\ Len(native.dns) <= 2
      BY <1>1 DEF StatusInv, StatusTyped, StatusRead
    <3>3. QED
      BY <1>2, <2>1, <3>1, <3>2 DEF SaysNetwork
  <2>2. CASE info # NoInfo
    <3>1. /\ info \in Infos /\ info.active \in BOOLEAN /\ info.v4 \in BOOLEAN /\ info.cid \in BOOLEAN
          /\ info.addr \in Nat /\ info.dns \in Seq(Nat)
      BY <1>3, <1>4, <2>2, StatusConstants
    <3>2. PICK has \in BOOLEAN : has = Status!HasIpv4(info)
      <4>1. CASE info.active /\ info.v4 /\ info.cid
        <5>1. Status!HasIpv4(info) = TRUE
          BY <4>1, Zenon DEF Status!HasIpv4
        <5>2. QED
          BY <5>1
      <4>2. CASE ~(info.active /\ info.v4 /\ info.cid)
        <5>1. Status!HasIpv4(info) = FALSE
          BY <4>2, Zenon DEF Status!HasIpv4
        <5>2. QED
          BY <5>1
      <4>3. QED
        BY <4>1, <4>2
    <3>3. PICK addr \in Nat : addr = (IF has THEN info.addr ELSE 0)
      BY <3>1
    <3>4. PICK n \in Nat : n = Len(info.dns)
      BY <3>1
    <3>5. PICK dns : dns = (IF has THEN SubSeq(info.dns, 1, IF n > 2 THEN 2 ELSE n) ELSE <<>>)
      OBVIOUS
    <3>6. PICK m \in Nat : m = (IF n > 2 THEN 2 ELSE n)
      OBVIOUS
    <3>7. /\ dns \in Seq(Nat) /\ Len(dns) <= 2 /\ Len(dns) <= n
          /\ \A i \in 1 .. Len(dns) : dns[i] = info.dns[i]
      <4>1. CASE has = TRUE
        <5>1. /\ dns = SubSeq(info.dns, 1, m) /\ m <= 2 /\ m <= n
          BY <3>5, <3>6, <4>1
        <5>2. dns \in Seq(Nat) /\ Len(dns) = m /\ \A i \in 1 .. m : dns[i] = info.dns[i]
          BY <3>1, <3>4, <5>1
        <5>3. QED
          BY <5>1, <5>2
      <4>2. CASE has = FALSE
        <5>1. dns = <<>>
          BY <3>5, <4>2
        <5>2. <<>> \in Seq(Nat) /\ Len(<<>>) = 0
          OBVIOUS
        <5>3. QED
          BY <5>1, <5>2
      <4>3. QED
        BY <3>2, <4>1, <4>2
    <3>8. native' = [native EXCEPT !.valid = TRUE, !.ready = info.active, !.hasIPv4 = has,
                                   !.addr = addr, !.dns = dns]
      BY <1>4, <2>2, <3>2, <3>3, <3>4, <3>5, Zenon DEF Status!ReadNet
    <3>9. TRUE \in BOOLEAN
      OBVIOUS
    <3>10. native' = [ps |-> native.ps, registered |-> native.registered, valid |-> TRUE,
                      ready |-> info.active, hasIPv4 |-> has, addr |-> addr, dns |-> dns]
      BY <1>2, <3>8, Zenon DEF Natives
    <3>11. /\ native'.ps = native.ps /\ native'.registered = native.registered /\ native'.valid = TRUE
           /\ native'.ready = info.active /\ native'.hasIPv4 = has /\ native'.addr = addr /\ native'.dns = dns
      BY <3>10, Zenon
    <3>12. native.ps \in BOOLEAN /\ native.registered \in BOOLEAN
      BY <1>2, Zenon DEF Natives
    <3>13. native' \in Natives
      BY <3>1, <3>7, <3>9, <3>10, <3>12, Zenon DEF Natives
    <3>14. has => addr = info.addr
      BY <3>3
    <3>15. SaysNetwork(native', native'.dns, info)
      BY <2>2, <3>2, <3>4, <3>7, <3>11, <3>14, Zenon DEF SaysNetwork
    <3>16. QED
      BY <3>7, <3>11, <3>13, <3>15
  <2>3. QED
    BY <2>1, <2>2
<1>6. StatusTyped'
  BY <1>1, <1>5 DEF StatusInv, StatusTyped
<1>7. SaysNetwork(native, native.dns, modem.info)'
  BY <1>1, <1>4, <1>5, Zenon DEF SaysNetwork
<1>8. StatusRead'
  BY <1>1, <1>2, <1>5, <1>7 DEF StatusInv, StatusRead
<1>9. QED
  BY <1>1, <1>6, <1>8 DEF StatusInv, StatusKept

\* The sketch gets what was read, and of an earlier status only servers beyond the count.
LEMMA StatusCopyStatus == StatusInv /\ Status!CopyStatus => StatusInv'
<1> SUFFICES ASSUME StatusInv, Status!CopyStatus PROVE StatusInv'
  OBVIOUS
<1>1. at = "copy" /\ at' = "idle" /\ native' = Status!NativeZero /\ modem' = modem /\ during' = during
  BY DEF Status!CopyStatus
<1>2. /\ native \in Natives /\ native.dns \in Seq(Nat) /\ Len(native.dns) <= 2
      /\ status.dns \in Seq(Nat) /\ Len(status.dns) = 2 /\ modem \in Status!Modems
  <2>1. native \in Natives
    BY DEF StatusInv, StatusTyped
  <2>2. native.dns \in Seq(Nat)
    BY <2>1, Zenon DEF Natives
  <2>3. QED
    BY <2>1, <2>2 DEF StatusInv, StatusTyped
<1>3. PICK n \in 0 .. 2 : n = Len(native.dns)
  <2>1. PICK k \in Nat : k = Len(native.dns)
    BY <1>2
  <2>2. k <= 2
    BY <1>2, <2>1, Zenon
  <2>4. k \in 0 .. 2
    BY <2>2
  <2>3. QED
    BY <2>1, <2>4
<1>4. PICK dns : dns = [i \in 1 .. 2 |-> IF i <= n THEN native.dns[i] ELSE status.dns[i]]
  OBVIOUS
<1>5. dns \in Seq(Nat) /\ Len(dns) = 2 /\ \A i \in 1 .. n : dns[i] = native.dns[i]
  <2>1. \A i \in 1 .. 2 : i <= n => native.dns[i] \in Nat
    BY <1>2, <1>3
  <2>2. \A i \in 1 .. 2 : status.dns[i] \in Nat
    BY <1>2
  <2>3. dns \in [1 .. 2 -> Nat]
    BY <1>4, <2>1, <2>2
  <2>4. QED
    BY <1>4, <2>3
<1>6. status' = Status!Copied(dns)
  BY <1>3, <1>4, Zenon DEF Status!CopyStatus
<1>7. /\ status'.ps = native.ps /\ status'.registered = native.registered /\ status'.valid = native.valid
      /\ status'.ready = native.ready /\ status'.hasIPv4 = native.hasIPv4 /\ status'.addr = native.addr
      /\ status'.dns = dns /\ status'.dnsCount = n
  BY <1>3, <1>6, CopiedFields, Zenon
<1>8. StatusTyped'
  <2>1. during' \subseteq Status!Modems /\ modem' \in Status!Modems
    BY <1>1 DEF StatusInv, StatusTyped
  <2>2. native' \in Natives /\ Len(native'.dns) <= 2
    BY <1>1, ZeroFields
  <2>3. status'.dns \in Seq(Nat) /\ Len(status'.dns) = 2 /\ status'.dnsCount \in 0 .. 2
    BY <1>5, <1>7
  <2>4. QED
    BY <1>1, <2>1, <2>2, <2>3 DEF StatusTyped
<1>9. StatusRead'
  BY <1>1 DEF StatusRead
<1>10. \E m \in during : status'.ps = m.ps
  BY <1>1, <1>7 DEF StatusInv, StatusRead
<1>11. \E m \in during : status'.registered = Status!Registered(m.cereg)
  BY <1>1, <1>7 DEF StatusInv, StatusRead
<1>12. PICK m \in during : SaysNetwork(native, native.dns, m.info)
  BY <1>1 DEF StatusInv, StatusRead
<1>13. SubSeq(dns, 1, n) = native.dns
  <2>1. SubSeq(dns, 1, n) \in Seq(Nat) /\ Len(SubSeq(dns, 1, n)) = n /\ \A i \in 1 .. n : SubSeq(dns, 1, n)[i] = dns[i]
    <3>1. dns \in Seq(Nat) /\ Len(dns) = 2 /\ n \in Nat /\ n <= 2
      BY <1>3, <1>5
    <3>2. PICK t : t = SubSeq(dns, 1, n)
      OBVIOUS
    <3>3. t \in Seq(Nat) /\ Len(t) = n /\ \A i \in 1 .. n : t[i] = dns[i]
      BY <3>1, <3>2
    <3>4. QED
      BY <3>2, <3>3
  <2>2. QED
    BY <1>2, <1>3, <1>5, <2>1
<1>14. SaysNetwork(status', SubSeq(status'.dns, 1, status'.dnsCount), m.info)
  BY <1>7, <1>12, <1>13, Zenon DEF SaysNetwork
<1>15. StatusKept'
  BY <1>1, <1>10, <1>11, <1>12, <1>14, Zenon DEF StatusKept, SaysNetwork
<1>16. QED
  BY <1>8, <1>9, <1>15 DEF StatusInv

LEMMA StatusNextInv == StatusInv /\ [Status!Next]_<<modem, at, native, status, during>> => StatusInv'
<1> SUFFICES ASSUME StatusInv, [Status!Next]_<<modem, at, native, status, during>> PROVE StatusInv'
  OBVIOUS
<1>1. CASE UNCHANGED <<modem, at, native, status, during>>
  BY <1>1, Zenon DEF StatusInv, StatusTyped, StatusRead, StatusKept, SaysNetwork
<1>2. CASE Status!Next
  BY <1>2, StatusModemStep, StatusGetStatus, StatusReadPs, StatusReadCereg, StatusReadNet,
     StatusCopyStatus DEF Status!Next
<1>3. QED
  BY <1>1, <1>2

\* A sequence that agrees with another one as far as it goes is the beginning of it.
LEMMA Prefixed ==
  ASSUME NEW t \in Seq(Nat), NEW u \in Seq(Nat), Len(t) <= Len(u), \A i \in 1 .. Len(t) : t[i] = u[i]
  PROVE  Len(t) <= Len(u) /\ SubSeq(t, 1, Len(t)) = SubSeq(u, 1, Len(t))
<1>1. PICK n \in Nat : n = Len(t)
  OBVIOUS
<1>2. PICK k \in Nat : k = Len(u) /\ n <= k
  BY <1>1
<1>3. PICK a : a = SubSeq(t, 1, n)
  OBVIOUS
<1>4. PICK b : b = SubSeq(u, 1, n)
  OBVIOUS
<1>5. a \in Seq(Nat) /\ Len(a) = n /\ \A i \in 1 .. n : a[i] = t[i]
  BY <1>1, <1>3
<1>6. b \in Seq(Nat) /\ Len(b) = n /\ \A i \in 1 .. n : b[i] = u[i]
  BY <1>2, <1>4
<1>7. Len(a) = Len(b) /\ \A i \in 1 .. Len(a) : a[i] = b[i]
  BY <1>1, <1>5, <1>6
<1>8. a = b
  BY <1>5, <1>6, <1>7, SeqEqual
<1>9. QED
  BY <1>1, <1>3, <1>4, <1>8

\* A status that says so of some state of the modem is a true one.
LEMMA StatusInvSuffices == StatusInv => StatusWasTrue
<1> SUFFICES ASSUME StatusInv PROVE StatusWasTrue
  OBVIOUS
<1>1. Status!TypeOK
  BY DEF StatusInv, StatusTyped, Status!TypeOK
<1>2. ASSUME at = "idle", during # {}
      PROVE  \E m \in during :
               IF m.info = NoInfo THEN ~status.valid /\ ~status.ready /\ ~status.hasIPv4
               ELSE /\ status.valid /\ status.ready = m.info.active
                    /\ status.hasIPv4 = Status!HasIpv4(m.info)
                    /\ status.hasIPv4 => status.addr = m.info.addr
                    /\ Status!IsPrefix(SubSeq(status.dns, 1, status.dnsCount), m.info.dns)
  <2>1. PICK m \in during : SaysNetwork(status, SubSeq(status.dns, 1, status.dnsCount), m.info)
    BY <1>2 DEF StatusInv, StatusKept
  <2>2. CASE m.info = NoInfo
    BY <2>1, <2>2, Zenon DEF SaysNetwork
  <2>3. CASE m.info # NoInfo
    <3>1. PICK t : t = SubSeq(status.dns, 1, status.dnsCount)
      OBVIOUS
    <3>2. t \in Seq(Nat)
      <4>1. PICK d : d = status.dns
        OBVIOUS
      <4>2. PICK k \in 0 .. 2 : k = status.dnsCount
        BY DEF StatusInv, StatusTyped
      <4>3. d \in Seq(Nat) /\ Len(d) = 2
        BY <4>1 DEF StatusInv, StatusTyped
      <4>4. SubSeq(d, 1, k) \in Seq(Nat)
        <5>1. \A i \in 1 .. k : d[i] \in Nat
          <6>1. k <= 2 /\ \A i \in 1 .. k : i \in 1 .. 2
            BY <4>2
          <6>2. \A i \in 1 .. 2 : d[i] \in Nat
            BY <4>3, ElementOfSeq, Zenon
          <6>3. QED
            BY <6>1, <6>2
        <5>2. 1 \in Int /\ k \in Int
          OBVIOUS
        <5>3. QED
          BY <5>1, <5>2, SubSeqProperties
      <4>5. QED
        BY <3>1, <4>1, <4>2, <4>4
    <3>3. m \in Status!Modems => m.info \in Infos
      BY <2>3, Zenon DEF Status!Modems
    <3>6. PICK u : u = m.info.dns
      OBVIOUS
    <3>7. u \in Seq(Nat)
      BY <3>3, <3>6, StatusConstants DEF StatusInv, StatusTyped
    <3>8. Len(t) <= Len(u) /\ \A i \in 1 .. Len(t) : t[i] = u[i]
      BY <2>1, <2>3, <3>1, <3>6, Zenon DEF SaysNetwork
    <3>4. Status!IsPrefix(t, m.info.dns)
      BY <3>2, <3>6, <3>7, <3>8, Prefixed DEF Status!IsPrefix
    <3>5. QED
      BY <2>1, <2>3, <3>1, <3>4, Zenon DEF SaysNetwork
  <2>4. QED
    BY <2>2, <2>3
<1>3. QED
  BY <1>1, <1>2 DEF StatusWasTrue, Status!StatusWasTrue, StatusInv, StatusKept

\* The other parts of Modem leave the status alone.
LEMMA StatusRuns == ModemInit /\ [][TimeNext \/ StatusNext \/ ReadingsNext]_allVars => []StatusInv
<1>1. ModemInit => StatusInv
  BY StatusInit DEF ModemInit
<1>2. [TimeNext \/ StatusNext \/ ReadingsNext]_allVars => [Status!Next]_<<modem, at, native, status, during>>
  BY DEF TimeNext, StatusNext, ReadingsNext, allVars, statusVars
<1>3. QED
  BY <1>1, <1>2, StatusNextInv, PTL

\* Whatever the modem does while its status is read in three calls, each part of
\* what getStatus says was so during the call, and all it says of the network
\* was so at one moment of it; nothing of an earlier status shows.
THEOREM ModemStatusTrue == ModemSpec => []StatusWasTrue
  BY StatusRuns, StatusInvSuffices, PTL DEF ModemSpec

-----------------------------------------------------------------------------
(* The readings: the inductive invariant of ModemReadings *)

Texts == Seq(Readings!Chars)

\* What the sketch set of a context is what the context has.
ReadingsTyped ==
  /\ apns \in [0 .. MaxCid -> Texts]
  /\ set \in [0 .. MaxCid -> SUBSET Texts]
  /\ \A c \in 0 .. MaxCid : set[c] \subseteq {apns[c]}

ReadingsInv == ReadingsTyped /\ ReadingSound

LEMMA ReadingsConstants ==
  /\ MaxCid \in Nat /\ MaxApn \in Nat /\ MaxText \in Nat /\ Cids \subseteq Nat /\ BufferSizes \subseteq Nat
  /\ Codes \subseteq 0 .. 999 /\ Csqs \subseteq 0 .. 255
  /\ RsrpRaws \subseteq -128 .. 127 /\ RsrqRaws \subseteq -128 .. 127
  BY ModemAssumption DEF Readings!ReadingsAssumption

LEMMA TextIsSeq == \A n \in Nat : \A text : text \in Readings!Texts(n) => text \in Texts
<1> SUFFICES ASSUME NEW n \in Nat, NEW text, text \in Readings!Texts(n) PROVE text \in Texts
  OBVIOUS
<1>1. PICK k \in 0 .. n : text \in [1 .. k -> Readings!Chars]
  BY Zenon DEF Readings!Texts
<1>2. QED
  BY <1>1 DEF Texts

\* A set of numbers has a least one.
LEMMA LeastOf ==
  ASSUME NEW I \in SUBSET Nat, NEW n \in I
  PROVE  \E m \in I : \A k \in I : m <= k
<1>1. PICK m \in I : \A k \in I : ~(<<k, m>> \in OpToRel(<, Nat))
  BY NatLessThanWellFounded, WFMin, Zenon
<1>2. \A k \in I : ~(k < m)
  BY <1>1 DEF OpToRel
<1>3. QED
  BY <1>2

\* The first place of a text that does not print.
LEMMA FirstBad ==
  ASSUME NEW room \in Texts
  PROVE  LET bad == Readings!SelectInSeq(room, LAMBDA c : ~Readings!Printable(c)) IN
         IF bad = 0 THEN \A i \in 1 .. Len(room) : Readings!Printable(room[i])
         ELSE /\ bad \in 1 .. Len(room) /\ ~Readings!Printable(room[bad])
              /\ \A i \in 1 .. bad - 1 : Readings!Printable(room[i])
<1>1. PICK I : I = {i \in 1 .. Len(room) : ~Readings!Printable(room[i])}
  OBVIOUS
<1>2. PICK bad : bad = Readings!SelectInSeq(room, LAMBDA c : ~Readings!Printable(c))
  OBVIOUS
<1>3. bad = IF I # {} THEN Readings!Min(I) ELSE 0
  BY <1>1, <1>2, Zenon DEF Readings!SelectInSeq
<1>4. CASE I = {}
  <2>1. bad = 0 /\ \A i \in 1 .. Len(room) : Readings!Printable(room[i])
    BY <1>1, <1>3, <1>4
  <2>2. QED
    BY <1>2, <2>1, Zenon
<1>5. CASE I # {}
  <2>1. PICK n : n \in I
    BY <1>5
  <2>2. I \in SUBSET Nat /\ I \subseteq 1 .. Len(room)
    BY <1>1 DEF Texts
  <2>3. \E m \in I : \A k \in I : m <= k
    BY <2>1, <2>2, LeastOf
  <2>4. bad \in I /\ \A k \in I : bad <= k
    BY <1>3, <1>5, <2>3, Zenon DEF Readings!Min
  <2>5. bad \in 1 .. Len(room) /\ bad # 0 /\ ~Readings!Printable(room[bad])
    BY <1>1, <2>2, <2>4
  <2>6. \A i \in 1 .. bad - 1 : Readings!Printable(room[i])
    <3>1. SUFFICES ASSUME NEW i \in 1 .. bad - 1 PROVE Readings!Printable(room[i])
      OBVIOUS
    <3>2. bad \in Nat /\ ~(bad <= i) /\ i \in 1 .. Len(room)
      BY <2>5 DEF Texts
    <3>3. QED
      BY <1>1, <2>4, <3>2, Zenon
  <2>7. QED
    BY <1>2, <2>5, <2>6, Zenon
<1>6. QED
  BY <1>4, <1>5

\* The beginning of a text.
LEMMA BeginningOf ==
  ASSUME NEW text \in Texts, NEW k \in Nat, k <= Len(text)
  PROVE  /\ SubSeq(text, 1, k) \in Texts /\ Len(SubSeq(text, 1, k)) = k
         /\ \A i \in 1 .. k : SubSeq(text, 1, k)[i] = text[i]
<1>1. PICK n \in Nat : n = Len(text) /\ k <= n
  BY DEF Texts
<1>2. \A i \in 1 .. k : i \in 1 .. Len(text)
  BY <1>1
<1>3. \A i \in 1 .. k : text[i] \in Readings!Chars
  BY <1>2, ElementOfSeq, Zenon DEF Texts
<1>4. 1 \in Int /\ k \in Int
  OBVIOUS
<1>5. /\ SubSeq(text, 1, k) \in Seq(Readings!Chars)
      /\ Len(SubSeq(text, 1, k)) = IF 1 <= k THEN k - 1 + 1 ELSE 0
      /\ \A i \in 1 .. k - 1 + 1 : SubSeq(text, 1, k)[i] = text[1 + i - 1]
  BY <1>3, <1>4, SubSeqProperties
<1>6. QED
  BY <1>5 DEF Texts

\* A copy is the longest beginning of a text that fits and prints.
LEMMA CopyLongest ==
  ASSUME NEW size \in Nat \ {0}, NEW text \in Texts
  PROVE  /\ Readings!CopyIsLongest(text, Readings!CopyBounded(size, text), size)
         /\ Readings!CopyBounded(size, text) \in Texts
         /\ \A i \in 1 .. Len(Readings!CopyBounded(size, text)) : Readings!CopyBounded(size, text)[i] = text[i]
<1>1. PICK n \in Nat : n = Len(text)
  BY DEF Texts
<1>2. PICK m \in Nat : m = (IF size - 1 < n THEN size - 1 ELSE n)
  OBVIOUS
<1>3. PICK room : room = SubSeq(text, 1, m)
  OBVIOUS
<1>4. m <= n /\ m < size /\ (m < n => m = size - 1)
  BY <1>2
<1>5. /\ room \in Texts /\ Len(room) = m /\ \A i \in 1 .. m : room[i] = text[i]
  BY <1>1, <1>3, <1>4, BeginningOf
<1>6. PICK bad : bad = Readings!SelectInSeq(room, LAMBDA c : ~Readings!Printable(c))
  OBVIOUS
<1>7. IF bad = 0 THEN \A i \in 1 .. Len(room) : Readings!Printable(room[i])
      ELSE /\ bad \in 1 .. Len(room) /\ ~Readings!Printable(room[bad])
           /\ \A i \in 1 .. bad - 1 : Readings!Printable(room[i])
  BY <1>5, <1>6, FirstBad, Zenon
<1>8. PICK k \in Nat : k = IF bad = 0 THEN m ELSE bad - 1
  BY <1>5, <1>7
<1>9. PICK copy : copy = SubSeq(text, 1, k)
  OBVIOUS
<1>10. /\ k <= m /\ \A i \in 1 .. k : Readings!Printable(text[i])
       /\ k < m => ~Readings!Printable(text[k + 1])
  <2>1. CASE bad = 0
    BY <1>5, <1>7, <1>8, <2>1
  <2>2. CASE bad # 0
    <3>1. /\ bad \in 1 .. m /\ ~Readings!Printable(room[bad])
          /\ \A i \in 1 .. bad - 1 : Readings!Printable(room[i])
      BY <1>5, <1>7, <2>2
    <3>2. k = bad - 1 /\ bad = k + 1 /\ k <= m /\ k < m
      BY <1>8, <2>2, <3>1
    <3>3. /\ room[k + 1] = text[k + 1] /\ \A i \in 1 .. k : room[i] = text[i]
      BY <1>5, <3>1, <3>2
    <3>4. QED
      BY <3>1, <3>2, <3>3
  <2>3. QED
    BY <2>1, <2>2
<1>11. copy \in Texts /\ Len(copy) = k /\ \A i \in 1 .. k : copy[i] = text[i]
  BY <1>1, <1>4, <1>9, <1>10, BeginningOf, SMTT(30)
<1>12. Readings!CopyBounded(size, text) = copy
  <2>1. Readings!CopyBounded(size, text) = IF bad = 0 THEN room ELSE SubSeq(room, 1, bad - 1)
    BY <1>1, <1>2, <1>3, <1>6, Zenon DEF Readings!CopyBounded
  <2>2. CASE bad = 0
    BY <1>3, <1>8, <1>9, <2>1, <2>2
  <2>3. CASE bad # 0
    <3>1. k = bad - 1
      BY <1>5, <1>7, <1>8, <2>3
    <3>2. PICK part1 : part1 = SubSeq(room, 1, k)
      OBVIOUS
    <3>3. part1 \in Texts /\ Len(part1) = k /\ \A i \in 1 .. k : part1[i] = room[i]
      BY <1>5, <1>10, <3>2, BeginningOf
    <3>4. \A i \in 1 .. k : i \in 1 .. m
      BY <1>10
    <3>5. Len(part1) = Len(copy) /\ \A i \in 1 .. Len(part1) : part1[i] = copy[i]
      BY <1>5, <1>11, <3>3, <3>4
    <3>6. part1 = copy
      BY <1>11, <3>3, <3>5, SeqEqual DEF Texts
    <3>7. QED
      BY <2>1, <2>3, <3>1, <3>2, <3>6
  <2>4. QED
    BY <2>2, <2>3
<1>13. /\ Readings!IsPrefix(copy, text) /\ Len(copy) < size
       /\ \A i \in DOMAIN copy : Readings!Printable(copy[i])
       /\ Len(copy) < Len(text) /\ Len(copy) < size - 1 => ~Readings!Printable(text[Len(copy) + 1])
  <2>1. Len(copy) <= Len(text) /\ \A i \in 1 .. Len(copy) : copy[i] = text[i]
    BY <1>1, <1>4, <1>10, <1>11
  <2>2. SubSeq(copy, 1, Len(copy)) = SubSeq(text, 1, Len(copy))
    <3>1. SubSeq(copy, 1, k) \in Texts /\ Len(SubSeq(copy, 1, k)) = k /\ \A i \in 1 .. k : SubSeq(copy, 1, k)[i] = copy[i]
      BY <1>11, BeginningOf
    <3>2. PICK t : t = SubSeq(copy, 1, k)
      OBVIOUS
    <3>3. Len(t) = Len(copy) /\ \A i \in 1 .. Len(t) : t[i] = copy[i]
      BY <1>11, <3>1, <3>2
    <3>4. t = copy
      BY <1>11, <3>1, <3>2, <3>3, SeqEqual DEF Texts
    <3>5. QED
      BY <1>9, <1>11, <3>2, <3>4
  <2>3. Readings!IsPrefix(copy, text)
    BY <2>1, <2>2, Zenon DEF Readings!IsPrefix
  <2>4. Len(copy) < size
    BY <1>4, <1>10, <1>11
  <2>5. \A i \in DOMAIN copy : Readings!Printable(copy[i])
    BY <1>10, <1>11 DEF Texts
  <2>6. Len(copy) < Len(text) /\ Len(copy) < size - 1 => k < m
    BY <1>1, <1>2, <1>11
  <2>7. QED
    BY <1>10, <1>11, <2>3, <2>4, <2>5, <2>6
<1>14. QED
  BY <1>11, <1>12, <1>13, Zenon DEF Readings!CopyIsLongest

LEMMA ReadingsInit == Readings!Init => ReadingsInv
<1> SUFFICES ASSUME Readings!Init PROVE ReadingsInv
  OBVIOUS
<1>1. /\ apns = [c \in 0 .. MaxCid |-> <<>>] /\ set = [c \in 0 .. MaxCid |-> {}]
      /\ reading = [kind |-> "none"]
  BY DEF Readings!Init
<1>2. ReadingsTyped
  BY <1>1 DEF ReadingsTyped, Texts
<1>3. reading.kind = "none"
  BY <1>1
<1>4. ReadingSound
  BY <1>3 DEF ReadingSound, Readings!ReadingSound
<1>5. QED
  BY <1>2, <1>4 DEF ReadingsInv

LEMMA ReadingsSetAPN ==
  \A cid \in Cids : \A text \in Texts : ReadingsInv /\ Readings!SetAPN(cid, text) => ReadingsInv'
<1> SUFFICES ASSUME NEW cid \in Cids, NEW text \in Texts, ReadingsInv, Readings!SetAPN(cid, text) PROVE ReadingsInv'
  OBVIOUS
<1>1. \E ok \in BOOLEAN : reading' = [kind |-> "set", ok |-> ok]
  <2>1. TRUE \in BOOLEAN /\ FALSE \in BOOLEAN
    OBVIOUS
  <2>2. QED
    BY <2>1, Zenon DEF Readings!SetAPN
<1>2. reading'.kind = "set"
  <2>1. PICK ok : reading' = [kind |-> "set", ok |-> ok]
    BY <1>1
  <2>2. QED
    BY <2>1, Zenon
<1>3. ReadingSound'
  BY <1>2 DEF ReadingSound, Readings!ReadingSound
<1>4. ReadingsTyped'
  <2>1. CASE UNCHANGED <<apns, set>>
    BY <2>1 DEF ReadingsInv, ReadingsTyped
  <2>2. CASE cid <= MaxCid /\ apns' = [apns EXCEPT ![cid] = text] /\ set' = [set EXCEPT ![cid] = {text}]
    <3>1. cid \in 0 .. MaxCid
      BY <2>2, ReadingsConstants
    <3>2. QED
      BY <2>2, <3>1 DEF ReadingsInv, ReadingsTyped
  <2>3. QED
    BY <2>1, <2>2, Zenon DEF Readings!SetAPN
<1>5. QED
  BY <1>3, <1>4 DEF ReadingsInv

\* An APN reads back as it was set.
LEMMA ReadingsGetAPN ==
  \A cid \in Cids : \A size \in BufferSizes : ReadingsInv /\ Readings!GetAPN(cid, size) => ReadingsInv'
<1> SUFFICES ASSUME NEW cid \in Cids, NEW size \in BufferSizes, ReadingsInv, Readings!GetAPN(cid, size) PROVE ReadingsInv'
  OBVIOUS
<1>1. apns' = apns /\ set' = set
  BY DEF Readings!GetAPN
<1>2. ReadingsTyped'
  BY <1>1 DEF ReadingsInv, ReadingsTyped
<1>3. CASE ~(size > 0 /\ cid <= MaxCid)
  <2>1. reading' = [kind |-> "none"]
    BY <1>3 DEF Readings!GetAPN
  <2>2. reading'.kind = "none"
    BY <2>1
  <2>3. QED
    BY <1>2, <2>2 DEF ReadingsInv, ReadingSound, Readings!ReadingSound
<1>4. CASE size > 0 /\ cid <= MaxCid
  <2>1. reading' = [kind |-> "apn", cid |-> cid, size |-> size, text |-> Readings!CopyBounded(size, apns[cid])]
    BY <1>4 DEF Readings!GetAPN
  <2>2. /\ reading'.kind = "apn" /\ reading'.cid = cid /\ reading'.size = size
        /\ reading'.text = Readings!CopyBounded(size, apns[cid])
    BY <2>1, Zenon
  <2>3. cid \in 0 .. MaxCid /\ size \in Nat \ {0}
    BY <1>4, ReadingsConstants
  <2>4. apns[cid] \in Texts /\ set[cid] \subseteq {apns[cid]}
    BY <2>3 DEF ReadingsInv, ReadingsTyped
  <2>5. Readings!CopyIsLongest(apns[cid], reading'.text, reading'.size)
    BY <2>2, <2>3, <2>4, CopyLongest, Zenon
  <2>6. \A text \in set'[reading'.cid] : Readings!CopyIsLongest(text, reading'.text, reading'.size)
    BY <1>1, <2>2, <2>4, <2>5, Zenon
  <2>7. ReadingSound'
    BY <2>2, <2>6, Zenon DEF ReadingSound, Readings!ReadingSound, Readings!CopyIsLongest, Readings!IsPrefix, Readings!Printable
  <2>8. QED
    BY <1>2, <2>7 DEF ReadingsInv
<1>5. QED
  BY <1>3, <1>4

\* An identity counts as valid when a character of it was copied.
LEMMA ReadingsGetIdentity ==
  \A text \in Texts : \A size \in BufferSizes : ReadingsInv /\ Readings!GetIdentity(text, size) => ReadingsInv'
<1> SUFFICES ASSUME NEW text \in Texts, NEW size \in BufferSizes, ReadingsInv, Readings!GetIdentity(text, size) PROVE ReadingsInv'
  OBVIOUS
<1>1. apns' = apns /\ set' = set /\ size > 0
  BY DEF Readings!GetIdentity
<1>2. ReadingsTyped'
  BY <1>1 DEF ReadingsInv, ReadingsTyped
<1>3. size \in Nat \ {0}
  BY <1>1, ReadingsConstants
<1>4. PICK copy : copy = Readings!CopyBounded(size, text)
  OBVIOUS
<1>5. reading' = [kind |-> "identity", of |-> text, size |-> size, text |-> copy, valid |-> copy # <<>>]
  BY <1>4, Zenon DEF Readings!GetIdentity
<1>6. /\ reading'.kind = "identity" /\ reading'.of = text /\ reading'.size = size /\ reading'.text = copy
      /\ reading'.valid = (copy # <<>>)
  BY <1>5, Zenon
<1>7. Readings!CopyIsLongest(text, copy, size)
  BY <1>3, <1>4, CopyLongest, Zenon
<1>8. copy # <<>> <=> size > 1 /\ text # <<>> /\ Readings!Printable(text[1])
  <2>1. copy \in Texts /\ \A i \in 1 .. Len(copy) : copy[i] = text[i]
    BY <1>3, <1>4, CopyLongest, Zenon
  <2>2. PICK n \in Nat : n = Len(text)
    BY DEF Texts
  <2>3. PICK k \in Nat : k = Len(copy)
    BY <2>1 DEF Texts
  <2>4. (text # <<>> <=> n > 0) /\ (copy # <<>> <=> k > 0)
    BY <2>1, <2>2, <2>3, EmptySeq DEF Texts
  <2>5. Len(copy) < size /\ Len(copy) <= Len(text)
    BY <1>7, Zenon DEF Readings!CopyIsLongest, Readings!IsPrefix
  <2>6. k < size /\ k <= n
    BY <2>2, <2>3, <2>5, Zenon
  <2>7. DOMAIN copy = 1 .. k
    BY <2>1, <2>3 DEF Texts
  <2>8. \A i \in 1 .. k : Readings!Printable(copy[i])
    BY <1>7, <2>7, Zenon DEF Readings!CopyIsLongest
  <2>9. Len(copy) < Len(text) /\ Len(copy) < size - 1 => ~Readings!Printable(text[Len(copy) + 1])
    BY <1>7, Zenon DEF Readings!CopyIsLongest
  <2>10. k < n /\ k < size - 1 => ~Readings!Printable(text[k + 1])
    BY <2>2, <2>3, <2>9, Zenon
  <2>11. ASSUME k > 0 PROVE size > 1 /\ n > 0 /\ Readings!Printable(text[1])
    <3>1. 1 \in 1 .. k /\ size > 1 /\ n > 0
      BY <1>3, <2>6, <2>11
    <3>2. QED
      BY <2>1, <2>3, <2>8, <3>1
  <2>12. ASSUME ~(k > 0), size > 1, n > 0, Readings!Printable(text[1]) PROVE FALSE
    <3>1. k = 0 /\ k + 1 = 1 /\ k < n /\ k < size - 1
      BY <1>3, <2>12
    <3>2. QED
      BY <2>10, <2>12, <3>1
  <2>13. QED
    BY <2>4, <2>11, <2>12
<1>9. ReadingSound'
  BY <1>6, <1>7, <1>8, Zenon DEF ReadingSound, Readings!ReadingSound, Readings!CopyIsLongest, Readings!IsPrefix, Readings!Printable
<1>10. QED
  BY <1>2, <1>9 DEF ReadingsInv

\* What a code is after the modem wrote its digits and the core read them.
LEMMA DigitsRead ==
  \A n \in 0 .. 999 :
    /\ Readings!Bcd3ToNumber(Readings!Bcd(n)) = n
    /\ n < 100 => Readings!Nibble(Readings!Bcd(n), 16) * 10 + Readings!Nibble(Readings!Bcd(n), 1) = n
<1> SUFFICES ASSUME NEW n \in 0 .. 999
             PROVE  /\ Readings!Bcd3ToNumber(Readings!Bcd(n)) = n
                    /\ n < 100 => Readings!Nibble(Readings!Bcd(n), 16) * 10 + Readings!Nibble(Readings!Bcd(n), 1) = n
  OBVIOUS
<1>1. PICK a \in 0 .. 9 : a = n \div 100
  OBVIOUS
<1>2. PICK b \in 0 .. 9 : b = (n \div 10) % 10
  OBVIOUS
<1>3. PICK d \in 0 .. 9 : d = n % 10
  OBVIOUS
<1>4. n = 100 * a + 10 * b + d
  BY <1>1, <1>2, <1>3
<1>5. PICK v \in Nat : v = a * 256 + b * 16 + d
  OBVIOUS
<1>6. Readings!Bcd(n) = v
  BY <1>1, <1>2, <1>3, <1>5 DEF Readings!Bcd
<1>7. (v \div 256) % 16 = a /\ (v \div 16) % 16 = b /\ (v \div 1) % 16 = d
  BY <1>5
<1>8. Readings!Nibble(v, 256) = a /\ Readings!Nibble(v, 16) = b /\ Readings!Nibble(v, 1) = d
  BY <1>7 DEF Readings!Nibble
<1>9. Readings!Bcd3ToNumber(v) = a * 100 + b * 10 + d
  BY <1>8, Zenon DEF Readings!Bcd3ToNumber
<1>10. n < 100 => a = 0
  BY <1>4
<1>11. Readings!Bcd3ToNumber(Readings!Bcd(n)) = n
  BY <1>4, <1>6, <1>9
<1>12. n < 100 => b * 10 + d = n
  BY <1>4, <1>10
<1>13. QED
  BY <1>6, <1>8, <1>11, <1>12

\* Codes are read as the modem wrote them.
LEMMA ReadingsGetCellInfo ==
  \A mcc \in Codes : \A mnc \in Codes : \A two \in BOOLEAN :
     ReadingsInv /\ Readings!GetCellInfo(mcc, mnc, two) => ReadingsInv'
<1> SUFFICES ASSUME NEW mcc \in Codes, NEW mnc \in Codes, NEW two \in BOOLEAN, ReadingsInv, Readings!GetCellInfo(mcc, mnc, two)
             PROVE  ReadingsInv'
  OBVIOUS
<1>1. apns' = apns /\ set' = set /\ (two => mnc < 100)
  BY DEF Readings!GetCellInfo
<1>2. ReadingsTyped'
  BY <1>1 DEF ReadingsInv, ReadingsTyped
<1>3. mcc \in 0 .. 999 /\ mnc \in 0 .. 999
  BY ReadingsConstants
<1>4. PICK m : m = Readings!BcdMncToNumber(Readings!Bcd(mnc), two)
  OBVIOUS
<1>5. m.mnc = mnc /\ (m.digits = 2) = two
  <2>1. CASE two = TRUE
    <3>1. m = [mnc |-> Readings!Nibble(Readings!Bcd(mnc), 16) * 10 + Readings!Nibble(Readings!Bcd(mnc), 1), digits |-> 2]
      BY <1>4, <2>1 DEF Readings!BcdMncToNumber
    <3>2. m.digits = 2 /\ m.mnc = Readings!Nibble(Readings!Bcd(mnc), 16) * 10 + Readings!Nibble(Readings!Bcd(mnc), 1)
      BY <3>1, Zenon
    <3>3. m.mnc = mnc
      BY <1>1, <1>3, <2>1, <3>2, DigitsRead
    <3>4. QED
      BY <2>1, <3>2, <3>3
  <2>2. CASE two = FALSE
    <3>1. m = [mnc |-> Readings!Bcd3ToNumber(Readings!Bcd(mnc)), digits |-> 3]
      BY <1>4, <2>2 DEF Readings!BcdMncToNumber
    <3>2. m.digits = 3 /\ m.mnc = Readings!Bcd3ToNumber(Readings!Bcd(mnc))
      BY <3>1, Zenon
    <3>3. m.mnc = mnc
      BY <1>3, <3>2, DigitsRead
    <3>4. QED
      BY <2>2, <3>2, <3>3
  <2>3. QED
    BY <2>1, <2>2
<1>6. PICK c : c = Readings!Bcd3ToNumber(Readings!Bcd(mcc))
  OBVIOUS
<1>7. c = mcc
  BY <1>3, <1>6, DigitsRead
<1>8. reading' = [kind |-> "cell", mcc |-> c, mnc |-> m, of |-> <<mcc, mnc, two>>]
  BY <1>4, <1>6, Zenon DEF Readings!GetCellInfo
<1>9. reading'.kind = "cell" /\ reading'.mcc = mcc /\ reading'.mnc = m /\ reading'.of = <<mcc, mnc, two>>
  BY <1>7, <1>8, Zenon
<1>10. reading'.of[1] = mcc /\ reading'.of[2] = mnc /\ reading'.of[3] = two
  <2>1. PICK r : r = <<mcc, mnc, two>>
    OBVIOUS
  <2>2. r[1] = mcc /\ r[2] = mnc
    BY <2>1
  <2>3. r[3] = two
    BY <2>1
  <2>4. QED
    BY <1>9, <2>1, <2>2, <2>3
<1>11. ReadingSound'
  BY <1>5, <1>9, <1>10, Zenon DEF ReadingSound, Readings!ReadingSound
<1>12. QED
  BY <1>2, <1>11 DEF ReadingsInv

\* What a level reads as, with what the next one would.
LEMMA Levels ==
  /\ \A raw \in 0 .. 255 : Readings!CsqRssiIsValid(raw) =>
       /\ Readings!CsqToRssiDbm(raw) \in -113 .. -51
       /\ Readings!CsqToRssiDbm(raw) - Readings!CsqToRssiDbm(raw + 1) \in {0, -2}
  /\ \A raw \in -128 .. 127 : Readings!RsrpRawIsValid(raw) => Readings!RsrpRawToDbm(raw) \in -158 .. -44
  /\ \A raw \in -128 .. 127 : Readings!RsrqRawIsValid(raw) =>
       /\ Readings!RsrqRawToDb(raw) \in -34 .. 2
       /\ Readings!RsrqRawToDb(raw + 1) - Readings!RsrqRawToDb(raw) \in {0, 1}
<1>1. ASSUME NEW raw \in 0 .. 255, raw <= 31
      PROVE  /\ Readings!CsqToRssiDbm(raw) \in -113 .. -51
             /\ Readings!CsqToRssiDbm(raw) - Readings!CsqToRssiDbm(raw + 1) \in {0, -2}
  BY <1>1 DEF Readings!CsqToRssiDbm
<1>2. ASSUME NEW raw \in -128 .. 127, raw >= -17, raw <= 97 PROVE Readings!RsrpRawToDbm(raw) \in -158 .. -44
  BY <1>2 DEF Readings!RsrpRawToDbm
<1>3. ASSUME NEW raw \in -128 .. 127, raw > -30, raw <= 46
      PROVE  /\ Readings!RsrqRawToDb(raw) \in -34 .. 2
             /\ Readings!RsrqRawToDb(raw + 1) - Readings!RsrqRawToDb(raw) \in {0, 1}
  BY <1>3 DEF Readings!RsrqRawToDb, Readings!Quotient
<1>4. QED
  BY <1>1, <1>2, <1>3 DEF Readings!CsqRssiIsValid, Readings!RsrpRawIsValid, Readings!RsrqRawIsValid

\* Only raw values of the standard are reported, each as its level.
LEMMA ReadingsGetSignal ==
  \A csq \in Csqs : \A rsrp \in RsrpRaws : \A rsrq \in RsrqRaws :
     ReadingsInv /\ Readings!GetSignal(csq, rsrp, rsrq) => ReadingsInv'
<1> SUFFICES ASSUME NEW csq \in Csqs, NEW rsrp \in RsrpRaws, NEW rsrq \in RsrqRaws,
                    ReadingsInv, Readings!GetSignal(csq, rsrp, rsrq)
             PROVE  ReadingsInv'
  OBVIOUS
<1>1. apns' = apns /\ set' = set
  BY DEF Readings!GetSignal
<1>2. ReadingsTyped'
  BY <1>1 DEF ReadingsInv, ReadingsTyped
<1>3. PICK a : a = IF Readings!CsqRssiIsValid(csq) THEN {Readings!CsqToRssiDbm(csq)} ELSE {}
  OBVIOUS
<1>4. PICK p : p = IF Readings!RsrpRawIsValid(rsrp) THEN {Readings!RsrpRawToDbm(rsrp)} ELSE {}
  OBVIOUS
<1>5. PICK q : q = IF Readings!RsrqRawIsValid(rsrq) THEN {Readings!RsrqRawToDb(rsrq)} ELSE {}
  OBVIOUS
<1>6. reading' = [kind |-> "signal", rssi |-> a, rsrp |-> p, rsrq |-> q, raw |-> <<csq, rsrp, rsrq>>]
  BY <1>3, <1>4, <1>5, Zenon DEF Readings!GetSignal
<1>7. /\ reading'.kind = "signal" /\ reading'.rssi = a /\ reading'.rsrp = p /\ reading'.rsrq = q
      /\ reading'.raw = <<csq, rsrp, rsrq>>
  BY <1>6, Zenon
<1>8. <<csq, rsrp, rsrq>>[1] = csq /\ <<csq, rsrp, rsrq>>[3] = rsrq
  OBVIOUS
<1>9. csq \in 0 .. 255 /\ rsrp \in -128 .. 127 /\ rsrq \in -128 .. 127
  BY ReadingsConstants
<1>10. a = {} \/ \E v \in a : v \in -113 .. -51 /\ v - Readings!CsqToRssiDbm(csq + 1) \in {0, -2}
  BY <1>3, <1>9, Levels, Zenon
<1>11. \A v \in p : v \in -158 .. -44
  BY <1>4, <1>9, Levels, Zenon
<1>12. \A v \in q : v \in -34 .. 2 /\ Readings!RsrqRawToDb(rsrq + 1) - v \in {0, 1}
  BY <1>5, <1>9, Levels, Zenon
<1>13. Readings!SignalSound'
  BY <1>7, <1>8, <1>10, <1>11, <1>12, ZenonT(30)
     DEF Readings!SignalSound, Readings!CsqToRssiDbm, Readings!RsrqRawToDb, Readings!Quotient
<1>14. ReadingSound'
  BY <1>7, <1>13, Zenon DEF ReadingSound, Readings!ReadingSound, Readings!SignalSound
<1>15. QED
  BY <1>2, <1>14 DEF ReadingsInv

LEMMA ReadingsNextInv == ReadingsInv /\ [Readings!Next]_<<apns, set, reading>> => ReadingsInv'
<1> SUFFICES ASSUME ReadingsInv, [Readings!Next]_<<apns, set, reading>> PROVE ReadingsInv'
  OBVIOUS
<1>1. CASE UNCHANGED <<apns, set, reading>>
  <2>1. apns' = apns /\ set' = set /\ reading' = reading
    BY <1>1
  <2>2. ReadingsTyped'
    BY <2>1 DEF ReadingsInv, ReadingsTyped
  <2>3. Readings!SignalSound' <=> Readings!SignalSound
    BY <2>1 DEF Readings!SignalSound, Readings!CsqToRssiDbm, Readings!RsrqRawToDb, Readings!Quotient
  <2>4. ReadingSound'
    BY <2>1, <2>3 DEF ReadingsInv, ReadingSound, Readings!ReadingSound,
       Readings!CopyIsLongest, Readings!IsPrefix, Readings!Printable
  <2>5. QED
    BY <2>2, <2>4 DEF ReadingsInv
<1>2. CASE Readings!Next
  <2>1. \A text : text \in Readings!Texts(MaxApn + 1) \/ text \in Readings!Texts(MaxText) => text \in Texts
    <3>1. MaxApn + 1 \in Nat /\ MaxText \in Nat
      BY ReadingsConstants
    <3>2. QED
      BY <3>1, TextIsSeq, Zenon
  <2>2. QED
    BY <1>2, <2>1, ReadingsSetAPN, ReadingsGetAPN, ReadingsGetIdentity, ReadingsGetSignal,
       ReadingsGetCellInfo, Zenon DEF Readings!Next
<1>3. QED
  BY <1>1, <1>2

\* The other parts of Modem leave the readings alone.
LEMMA ReadingsRun == ModemInit /\ [][TimeNext \/ StatusNext \/ ReadingsNext]_allVars => []ReadingsInv
<1>1. ModemInit => ReadingsInv
  BY ReadingsInit DEF ModemInit
<1>2. [TimeNext \/ StatusNext \/ ReadingsNext]_allVars => [Readings!Next]_<<apns, set, reading>>
  BY DEF TimeNext, StatusNext, ReadingsNext, allVars, readingsVars
<1>3. QED
  BY <1>1, <1>2, ReadingsNextInv, PTL

\* Whatever APN is set and whatever is read into a buffer of any size: an APN reads
\* back as it was set as far as it fits and prints, so does an identity, codes mean
\* what the modem meant, and levels rise with their raw values.
THEOREM ModemReadingSound == ModemSpec => []ReadingSound
<1>1. ReadingsInv => ReadingSound
  BY DEF ReadingsInv
<1>2. QED
  BY <1>1, ReadingsRun, PTL DEF ModemSpec

-----------------------------------------------------------------------------
(* Sleep *)

-----------------------------------------------------------------------------
(* The inductive invariant *)

\* Timer t is the only one that runs, if any does.
OnlyRuns(t) == t \in Timers /\ \A u \in Timers : timers[u] > 0 => u = t

SleepTyped ==
  /\ radio \in BOOLEAN /\ slp2 \in BOOLEAN /\ votes \in BOOLEAN /\ refused \in BOOLEAN
  /\ timers \in [Timers -> 0 .. MaxTime]
  /\ power \in {"awake", "forced", "asleep"} /\ wake \in {"POR", "RTC", "PAD"}
  /\ stage \in {"loop", "light", "settle", "arm", "force"}
  /\ req \in [timer : Timers \cup {BadTimer}, time : 0 .. MaxTime]

\* What deepSleep has done so far.
Prepared ==
  /\ stage \in {"settle", "arm", "force"} => ~radio /\ req.timer \in Timers /\ req.time > 0
  /\ stage = "force" => slp2
  /\ power # "awake" => ~radio /\ slp2

\* The timer that runs.
OneTimer ==
  /\ \A t, u \in Timers : timers[t] > 0 /\ timers[u] > 0 => t = u
  /\ power # "awake" /\ ~refused => \E t \in Timers : timers[t] > 0
  /\ stage = "force" => timers[req.timer] > 0

SleepsInv == SleepTyped /\ Prepared /\ OneTimer /\ Sleep!PadsReadBack

-----------------------------------------------------------------------------
(* It implies the invariant of the run *)

\* The invariant is stronger than the one the run checks: among timers of which any
\* two that run are equal, at most one runs.
LEMMA SleepImplies == SleepsInv => Sleep!SleepInv
<1> SUFFICES ASSUME SleepsInv PROVE Sleep!SleepInv
  OBVIOUS
<1>1. Sleep!TypeOK
  BY DEF SleepsInv, SleepTyped, Sleep!TypeOK, Sleep!WakeupReason
<1>2. Sleep!running \subseteq Timers /\ \A t \in Timers : t \in Sleep!running <=> timers[t] > 0
  BY DEF Sleep!running
<1>3. ASSUME NEW t \in Sleep!running PROVE Sleep!running = {t}
  BY <1>2, <1>3 DEF SleepsInv, OneTimer
<1>4. Cardinality(Sleep!running) <= 1 /\ (Sleep!running # {} => Cardinality(Sleep!running) = 1)
  <2>1. CASE Sleep!running = {}
    <3>1. Cardinality(Sleep!running) = 0
      BY <2>1, FS_EmptySet, Zenon
    <3>2. QED
      BY <2>1, <3>1
  <2>2. CASE Sleep!running # {}
    <3>1. PICK t \in Sleep!running : Sleep!running = {t}
      BY <1>3, <2>2
    <3>2. Cardinality({t}) = 1
      BY FS_Singleton
    <3>3. QED
      BY <3>1, <3>2
  <2>3. QED
    BY <2>1, <2>2
<1>5. power # "awake" /\ ~refused => Sleep!running # {}
  BY <1>2 DEF SleepsInv, OneTimer
<1>6. Sleep!Cardinality(Sleep!running) = Cardinality(Sleep!running)
  BY DEF Sleep!Cardinality, Cardinality
<1>7. Sleep!SleepsPrepared
  BY <1>4, <1>5, <1>6 DEF SleepsInv, Prepared, Sleep!SleepsPrepared
<1>8. QED
  BY <1>1, <1>7 DEF SleepsInv, Sleep!SleepInv

\* It holds when the chip is switched on.
LEMMA SleepInit == Sleep!Init => SleepsInv
<1> SUFFICES ASSUME Sleep!Init PROVE SleepsInv
  OBVIOUS
<1>1. SleepTyped
  <2>1. 0 \in 0 .. MaxTime
    BY SleepAssumption DEF Sleep!SleepAssumption
  <2>2. timers \in [Timers -> 0 .. MaxTime] /\ req \in [timer : Timers \cup {BadTimer}, time : 0 .. MaxTime]
    BY <2>1 DEF Sleep!Init
  <2>3. radio = TRUE /\ slp2 = FALSE /\ votes = FALSE /\ refused = FALSE
        /\ power = "awake" /\ wake = "POR" /\ stage = "loop"
    BY DEF Sleep!Init
  <2>4. QED
    BY <2>2, <2>3 DEF SleepTyped
<1>2. Prepared
  BY DEF Sleep!Init, Prepared
<1>3. OneTimer
  BY DEF Sleep!Init, OneTimer
<1>4. Sleep!PadsReadBack
  BY DEF Sleep!Init, Sleep!PadsReadBack
<1>5. QED
  BY <1>1, <1>2, <1>3, <1>4 DEF SleepsInv

-----------------------------------------------------------------------------
(* Every action preserves it *)

\* There are settings of every pad, and of no other.
PadsKnown == DOMAIN pads = Pads

\* No call adds or removes a pad.
LEMMA PadsStayKnown == PadsKnown /\ [Sleep!Next]_(Sleep!vars) => PadsKnown'
<1> SUFFICES ASSUME PadsKnown, [Sleep!Next]_(Sleep!vars) PROVE PadsKnown'
  OBVIOUS
<1>1. CASE UNCHANGED pads
  BY <1>1 DEF PadsKnown
<1>2. CASE \E p \in Pads : \E setting : pads' = [pads EXCEPT ![p] = setting]
  BY <1>2 DEF PadsKnown
<1>3. CASE \E reason : Sleep!Boot(reason)
  BY <1>3 DEF PadsKnown, Sleep!Boot
<1>4. QED
  BY <1>1, <1>2, <1>3 DEF Sleep!Next, Sleep!vars, Sleep!chip, Sleep!LightSleep, Sleep!EndLightSleep, Sleep!DeepSleep, Sleep!Settled, Sleep!Arm, Sleep!ForceDown,
     Sleep!ClearWakeupPad, Sleep!SetWakeupPad, Sleep!FallAsleep, Sleep!Tick, Sleep!PadEdge

\* A light sleep leaves radio, timers and pads alone.
LEMMA SleepLight ==
  ASSUME SleepsInv, NEW time \in 0 .. MaxTime, Sleep!LightSleep(time) \/ Sleep!EndLightSleep
  PROVE  SleepsInv'
<1>1. UNCHANGED <<radio, slp2, timers, power, wake, req, refused>> /\ votes' \in BOOLEAN
  BY DEF Sleep!LightSleep, Sleep!EndLightSleep, Sleep!chip, SleepsInv, SleepTyped
<1>2. stage' \in {"loop", "light"}
  BY DEF Sleep!LightSleep, Sleep!EndLightSleep, Sleep!Return
<1>3. SleepTyped'
  BY <1>1, <1>2 DEF SleepsInv, SleepTyped
<1>4. Prepared' /\ OneTimer'
  BY <1>1, <1>2 DEF SleepsInv, Prepared, OneTimer
<1>5. Sleep!PadsReadBack'
  BY DEF SleepsInv, Sleep!PadsReadBack, Sleep!LightSleep, Sleep!EndLightSleep, Sleep!Return
<1>6. QED
  BY <1>3, <1>4, <1>5 DEF SleepsInv

\* deepSleep turns the radio off and goes on only with a timer and a time that exist.
LEMMA SleepDeep ==
  ASSUME SleepsInv, NEW time \in 0 .. MaxTime, NEW t \in Timers \cup {BadTimer}, Sleep!DeepSleep(t, time)
  PROVE  SleepsInv'
<1>1. UNCHANGED <<slp2, timers, votes, power, wake, refused>> /\ stage = "loop" /\ power # "asleep"
  BY DEF Sleep!DeepSleep, Sleep!InLoop
<1>2. CASE UNCHANGED <<radio, req>> /\ Sleep!Return("deep", FALSE, Sleep!ValidSleep(t, time))
  <2>1. SleepTyped' /\ Prepared' /\ OneTimer'
    BY <1>1, <1>2 DEF SleepsInv, SleepTyped, Prepared, OneTimer, Sleep!Return
  <2>2. Sleep!PadsReadBack'
    BY <1>2 DEF Sleep!PadsReadBack, Sleep!Return
  <2>3. QED
    BY <2>1, <2>2 DEF SleepsInv
<1>3. CASE Sleep!ValidSleep(t, time) /\ radio' = FALSE /\ stage' \in {"settle", "arm"}
           /\ req' = [timer |-> t, time |-> time] /\ UNCHANGED answer
  <2>1. t \in Timers /\ time > 0 /\ req'.timer = t /\ req'.time = time
    BY <1>3 DEF Sleep!ValidSleep
  <2>2. SleepTyped'
    BY <1>1, <1>3, <2>1 DEF SleepsInv, SleepTyped
  <2>3. Prepared'
    BY <1>1, <1>3, <2>1 DEF SleepsInv, Prepared
  <2>4. OneTimer'
    BY <1>1, <1>3 DEF SleepsInv, OneTimer
  <2>5. Sleep!PadsReadBack'
    BY <1>3 DEF SleepsInv, Sleep!PadsReadBack
  <2>6. QED
    BY <2>2, <2>3, <2>4, <2>5 DEF SleepsInv
<1>4. QED
  BY <1>2, <1>3 DEF Sleep!DeepSleep

\* The time to settle changes nothing else.
LEMMA SleepSettled ==
  ASSUME SleepsInv, Sleep!Settled
  PROVE  SleepsInv'
<1>1. UNCHANGED <<radio, slp2, timers, votes, power, wake, refused, req, answer>> /\ stage = "settle" /\ stage' = "arm"
  BY DEF Sleep!Settled, Sleep!chip
<1>2. QED
  BY <1>1 DEF SleepsInv, SleepTyped, Prepared, OneTimer, Sleep!PadsReadBack

\* At most the timer that was asked for runs.
LEMMA SleepArm ==
  ASSUME SleepsInv, Sleep!Arm
  PROVE  SleepsInv'
<1>1. /\ stage = "arm" /\ power # "asleep" /\ slp2' = TRUE
      /\ UNCHANGED <<radio, votes, power, wake, req>>
  BY DEF Sleep!Arm
<1>2. PICK left \in {0, req.time}, readable \in BOOLEAN :
        /\ timers' = Sleep!ArmedTimers(left)
        /\ IF left = 0 \/ ~readable THEN Sleep!Return("deep", FALSE, TRUE) /\ Sleep!Refuse
           ELSE stage' = "force" /\ UNCHANGED <<answer, refused>>
  BY DEF Sleep!Arm
<1>3. ~radio /\ req.timer \in Timers /\ req.time > 0 /\ req.time \in 0 .. MaxTime /\ req \in [timer : Timers \cup {BadTimer}, time : 0 .. MaxTime]
  BY <1>1 DEF SleepsInv, SleepTyped, Prepared
<1>4. left \in 0 .. MaxTime
  BY <1>3, SleepAssumption DEF Sleep!SleepAssumption
<1>5. timers' \in [Timers -> 0 .. MaxTime] /\ timers'[req.timer] = left
      /\ \A u \in Timers : timers'[u] > 0 => u = req.timer
  <2>1. timers' = [u \in Timers |-> IF u = req.timer THEN left ELSE 0]
    BY <1>2 DEF Sleep!ArmedTimers
  <2>2. 0 \in 0 .. MaxTime
    BY SleepAssumption DEF Sleep!SleepAssumption
  <2>3. \A u \in Timers : timers'[u] = IF u = req.timer THEN left ELSE 0
    BY <2>1
  <2>4. timers' \in [Timers -> 0 .. MaxTime]
    BY <1>4, <2>1, <2>2
  <2>5. timers'[req.timer] = left
    BY <1>3, <2>3
  <2>6. \A u \in Timers : timers'[u] > 0 => u = req.timer
    BY <2>3
  <2>7. QED
    BY <2>4, <2>5, <2>6
<1>6. CASE left = 0 \/ ~readable
  <2>1. stage' = "loop" /\ refused' = (refused \/ power = "forced") /\ answer' = [call |-> "deep", ok |-> FALSE, failed |-> TRUE]
    BY <1>2, <1>6 DEF Sleep!Return, Sleep!Refuse
  <2>2. refused' \in BOOLEAN
    BY <2>1 DEF SleepsInv, SleepTyped
  <2>3. SleepTyped'
    BY <1>1, <1>5, <2>1, <2>2 DEF SleepsInv, SleepTyped
  <2>4. Prepared'
    BY <1>1, <1>3, <2>1 DEF SleepsInv, Prepared
  <2>5. power' # "awake" => refused'
    BY <1>1, <2>1 DEF SleepsInv, SleepTyped
  <2>6. OneTimer'
    BY <1>5, <2>1, <2>5 DEF OneTimer
  <2>7. Sleep!PadsReadBack'
    BY <2>1 DEF Sleep!PadsReadBack
  <2>8. QED
    BY <2>3, <2>4, <2>6, <2>7 DEF SleepsInv
<1>7. CASE ~(left = 0 \/ ~readable)
  <2>1. stage' = "force" /\ UNCHANGED <<answer, refused>> /\ left = req.time
    BY <1>2, <1>7
  <2>2. SleepTyped'
    BY <1>1, <1>5, <2>1 DEF SleepsInv, SleepTyped
  <2>3. Prepared'
    BY <1>1, <1>3, <2>1 DEF SleepsInv, Prepared
  <2>4. OneTimer'
    BY <1>1, <1>3, <1>5, <2>1 DEF OneTimer
  <2>5. Sleep!PadsReadBack'
    BY <2>1 DEF SleepsInv, Sleep!PadsReadBack
  <2>6. QED
    BY <2>2, <2>3, <2>4, <2>5 DEF SleepsInv
<1>8. QED
  BY <1>6, <1>7

\* A forced chip has the timer of this call; a refused one has none left of it.
LEMMA SleepForce ==
  ASSUME SleepsInv, Sleep!ForceDown
  PROVE  SleepsInv'
<1>1. /\ stage = "force" /\ power # "asleep" /\ stage' = "loop"
      /\ UNCHANGED <<radio, slp2, votes, wake, req>>
  BY DEF Sleep!ForceDown, Sleep!Return
<1>2. ~radio /\ slp2 /\ req.timer \in Timers /\ timers[req.timer] > 0
  BY <1>1 DEF SleepsInv, Prepared, OneTimer
<1>3. CASE power' = "forced" /\ UNCHANGED <<timers, refused>> /\ Sleep!Return("deep", TRUE, FALSE)
  <2>1. SleepTyped' /\ Prepared'
    BY <1>1, <1>2, <1>3 DEF SleepsInv, SleepTyped, Prepared
  <2>2. OneTimer'
    BY <1>1, <1>2, <1>3 DEF SleepsInv, OneTimer
  <2>3. Sleep!PadsReadBack'
    BY <1>3 DEF Sleep!PadsReadBack, Sleep!Return
  <2>4. QED
    BY <2>1, <2>2, <2>3 DEF SleepsInv
<1>4. CASE /\ timers' = [timers EXCEPT ![req.timer] = 0] /\ UNCHANGED power
           /\ Sleep!Return("deep", FALSE, TRUE) /\ Sleep!Refuse
  <2>1. refused' = (refused \/ power = "forced") /\ refused' \in BOOLEAN
    BY <1>4 DEF Sleep!Refuse, SleepsInv, SleepTyped
  <2>2. timers' \in [Timers -> 0 .. MaxTime] /\ \A u \in Timers : timers'[u] > 0 => timers[u] > 0
    BY <1>2, <1>4, SleepAssumption DEF Sleep!SleepAssumption, SleepsInv, SleepTyped
  <2>3. SleepTyped'
    BY <1>1, <1>4, <2>1, <2>2 DEF SleepsInv, SleepTyped
  <2>4. Prepared'
    BY <1>1, <1>2, <1>4 DEF SleepsInv, Prepared
  <2>5. power' # "awake" => refused'
    BY <1>1, <1>4, <2>1 DEF SleepsInv, SleepTyped
  <2>6. OneTimer'
    BY <1>1, <2>2, <2>5 DEF SleepsInv, OneTimer
  <2>7. Sleep!PadsReadBack'
    BY <1>4 DEF Sleep!PadsReadBack, Sleep!Return
  <2>8. QED
    BY <2>3, <2>4, <2>6, <2>7 DEF SleepsInv
<1>5. QED
  BY <1>3, <1>4 DEF Sleep!ForceDown

\* A pad that was set up reads back as it was asked for.
LEMMA PadsAgree ==
  ASSUME NEW edge \in Sleep!Edges, NEW pull \in Sleep!Pulls
  PROVE  Sleep!PadOf(Sleep!IrqType(edge), pull) = Sleep!PadSettings(edge, pull)
<1>1. CASE edge = "rising"
  BY <1>1 DEF Sleep!PadOf, Sleep!PadSettings, Sleep!IrqType, Sleep!PosEdge, Sleep!NegEdge
<1>2. CASE edge = "falling"
  BY <1>2 DEF Sleep!PadOf, Sleep!PadSettings, Sleep!IrqType, Sleep!PosEdge, Sleep!NegEdge
<1>3. CASE edge = "both"
  BY <1>3 DEF Sleep!PadOf, Sleep!PadSettings, Sleep!IrqType, Sleep!PosEdge, Sleep!NegEdge
<1>4. QED
  BY <1>1, <1>2, <1>3 DEF Sleep!Edges

\* Setting up or clearing a pad touches pads only, and reports what it has set.
LEMMA SleepPads ==
  ASSUME SleepsInv, PadsKnown, NEW p \in Pads,
         Sleep!ClearWakeupPad(p) \/ \E e \in Sleep!Edges \cup {Sleep!NoEdge}, u \in Sleep!Pulls : Sleep!SetWakeupPad(p, e, u)
  PROVE  SleepsInv'
<1>1. UNCHANGED <<radio, slp2, timers, votes, power, wake, req, refused>> /\ stage' = "loop"
  BY DEF Sleep!ClearWakeupPad, Sleep!SetWakeupPad, Sleep!chip, Sleep!Return
<1>2. SleepTyped' /\ Prepared' /\ OneTimer'
  BY <1>1 DEF SleepsInv, SleepTyped, Prepared, OneTimer
<1>3. CASE Sleep!ClearWakeupPad(p)
  <2>1. answer'.call = "pad" => answer'.ok = TRUE \/ answer'.failed = TRUE
    BY <1>3 DEF Sleep!ClearWakeupPad, Sleep!Return
  <2>2. Sleep!PadsReadBack'
    BY <2>1 DEF Sleep!PadsReadBack
  <2>3. QED
    BY <1>2, <2>2 DEF SleepsInv
<1>4. ASSUME NEW e \in Sleep!Edges \cup {Sleep!NoEdge}, NEW u \in Sleep!Pulls, Sleep!SetWakeupPad(p, e, u) PROVE Sleep!PadsReadBack'
  <2>1. CASE Sleep!Return("pad", FALSE, TRUE)
    <3>1. answer'.failed = TRUE
      BY <2>1 DEF Sleep!Return
    <3>2. QED
      BY <3>1 DEF Sleep!PadsReadBack
  <2>2. CASE Sleep!Return("bad pad", FALSE, FALSE)
    <3>1. answer'.call # "pad"
      BY <2>2 DEF Sleep!Return
    <3>2. QED
      BY <3>1 DEF Sleep!PadsReadBack
  <2>3. CASE /\ Sleep!ValidWakeup(p, e, u) /\ pads' = [pads EXCEPT ![p] = [enabled |-> TRUE, set |-> Sleep!PadOf(Sleep!IrqType(e), u)]]
             /\ Sleep!Return("pad", pads'[p].set = Sleep!PadSettings(e, u), FALSE)
    <3>1. e \in Sleep!Edges
      BY <2>3 DEF Sleep!ValidWakeup
    <3>2. Sleep!PadOf(Sleep!IrqType(e), u) = Sleep!PadSettings(e, u)
      BY <3>1, PadsAgree
    <3>3. pads'[p].set = Sleep!PadSettings(e, u)
      BY <2>3, <3>2 DEF PadsKnown
    <3>4. answer'.ok = TRUE
      BY <2>3, <3>3 DEF Sleep!Return
    <3>5. QED
      BY <3>4 DEF Sleep!PadsReadBack
  <2>4. QED
    BY <1>4, <2>1, <2>2, <2>3 DEF Sleep!SetWakeupPad
<1>5. QED
  BY <1>2, <1>3, <1>4 DEF SleepsInv

\* Waking up forgets everything but the timers.
LEMMA SleepBoot ==
  ASSUME SleepsInv, NEW reason \in {"RTC", "PAD"}, Sleep!Boot(reason),
         timers' \in [Timers -> 0 .. MaxTime], \A t \in Timers : timers'[t] > 0 => timers[t] > 0
  PROVE  SleepsInv'
<1>1. SleepTyped'
  <2>1. 0 \in 0 .. MaxTime
    BY SleepAssumption DEF Sleep!SleepAssumption
  <2>2. req' \in [timer : Timers \cup {BadTimer}, time : 0 .. MaxTime]
    BY <2>1 DEF Sleep!Boot
  <2>3. radio' = TRUE /\ slp2' = FALSE /\ votes' = FALSE /\ refused' = FALSE
        /\ power' = "awake" /\ wake' = reason /\ stage' = "loop"
    BY DEF Sleep!Boot
  <2>4. QED
    BY <2>2, <2>3 DEF SleepTyped
<1>2. Prepared'
  BY DEF Sleep!Boot, Prepared
<1>3. OneTimer'
  BY DEF Sleep!Boot, SleepsInv, OneTimer
<1>4. Sleep!PadsReadBack'
  BY DEF Sleep!Boot, Sleep!PadsReadBack
<1>5. QED
  BY <1>1, <1>2, <1>3, <1>4 DEF SleepsInv

\* A timer that runs out wakes a chip that sleeps, so that one that sleeps on has
\* its timer still.
LEMMA SleepTick ==
  ASSUME SleepsInv, Sleep!Tick
  PROVE  SleepsInv'
<1>1. timers \in [Timers -> 0 .. MaxTime] /\ MaxTime \in Nat
  BY SleepAssumption DEF Sleep!SleepAssumption, SleepsInv, SleepTyped
<1>2. timers' = [t \in Timers |-> IF timers[t] > 0 THEN timers[t] - 1 ELSE 0]
  BY DEF Sleep!Tick
<1>3. timers' \in [Timers -> 0 .. MaxTime] /\ \A t \in Timers : timers'[t] > 0 => timers[t] > 0
  BY <1>1, <1>2
<1>4. CASE Sleep!Boot("RTC")
  BY <1>3, <1>4, SleepBoot
<1>5. CASE ~Sleep!Boot("RTC")
  <2>1. UNCHANGED <<radio, slp2, votes, power, wake, stage, req, answer, refused>>
        /\ ~(power = "asleep" /\ \E t \in Sleep!running : timers'[t] = 0)
    BY <1>5 DEF Sleep!Tick
  <2>2. power = "asleep" \/ (power = "awake" /\ stage \notin {"arm", "force"})
    BY DEF Sleep!Tick
  <2>3. SleepTyped' /\ Prepared' /\ Sleep!PadsReadBack'
    BY <1>3, <2>1 DEF SleepsInv, SleepTyped, Prepared, Sleep!PadsReadBack
  <2>4. power = "asleep" => \A t \in Timers : timers[t] > 0 => timers'[t] > 0
    <3> SUFFICES ASSUME power = "asleep", NEW t \in Timers, timers[t] > 0 PROVE timers'[t] > 0
      OBVIOUS
    <3>1. t \in Sleep!running
      BY DEF Sleep!running
    <3>2. timers'[t] # 0
      BY <2>1, <3>1
    <3>3. QED
      BY <1>3, <3>2
  <2>5. OneTimer'
    <3>1. \A t, u \in Timers : timers'[t] > 0 /\ timers'[u] > 0 => t = u
      BY <1>3 DEF SleepsInv, OneTimer
    <3>2. power' # "awake" /\ ~refused' => \E t \in Timers : timers'[t] > 0
      BY <2>1, <2>2, <2>4 DEF SleepsInv, OneTimer
    <3>3. stage' = "force" => timers'[req'.timer] > 0
      <4>1. stage = "force" => power = "asleep" /\ req.timer \in Timers /\ timers[req.timer] > 0
        BY <2>2 DEF SleepsInv, OneTimer, Prepared
      <4>2. QED
        BY <2>1, <2>4, <4>1
    <3>4. QED
      BY <3>1, <3>2, <3>3 DEF OneTimer
  <2>6. QED
    BY <2>3, <2>5 DEF SleepsInv
<1>6. QED
  BY <1>4, <1>5

\* Every step preserves the invariant: one case for each group of actions.
LEMMA SleepNext == SleepsInv /\ PadsKnown /\ [Sleep!Next]_(Sleep!vars) => SleepsInv'
<1> SUFFICES ASSUME SleepsInv, PadsKnown, [Sleep!Next]_(Sleep!vars) PROVE SleepsInv'
  OBVIOUS
<1>1. CASE \E time \in 0 .. MaxTime : Sleep!LightSleep(time) \/ \E t \in Timers \cup {BadTimer} : Sleep!DeepSleep(t, time)
  BY <1>1, SleepLight, SleepDeep
<1>2. CASE Sleep!EndLightSleep
  <2>1. 0 \in 0 .. MaxTime
    BY SleepAssumption DEF Sleep!SleepAssumption
  <2>2. QED
    BY <1>2, <2>1, SleepLight
<1>3. CASE Sleep!Settled \/ Sleep!Arm \/ Sleep!ForceDown
  BY <1>3, SleepSettled, SleepArm, SleepForce
<1>4. ASSUME NEW p \in Pads, Sleep!PadEdge(p) PROVE SleepsInv'
  <2>1. Sleep!Boot("PAD") /\ timers' = timers
    BY <1>4 DEF Sleep!PadEdge
  <2>2. timers' \in [Timers -> 0 .. MaxTime] /\ \A t \in Timers : timers'[t] > 0 => timers[t] > 0
    BY <2>1 DEF SleepsInv, SleepTyped
  <2>3. QED
    BY <2>1, <2>2, SleepBoot
<1>5. CASE \E p \in Pads : Sleep!ClearWakeupPad(p) \/ \E e \in Sleep!Edges \cup {Sleep!NoEdge}, u \in Sleep!Pulls : Sleep!SetWakeupPad(p, e, u)
  BY <1>5, SleepPads
<1>6. CASE Sleep!FallAsleep
  BY <1>6 DEF Sleep!FallAsleep, SleepsInv, SleepTyped, Prepared, OneTimer, Sleep!PadsReadBack
<1>7. CASE Sleep!Tick
  BY <1>7, SleepTick
<1>8. CASE UNCHANGED Sleep!vars
  BY <1>8 DEF Sleep!vars, SleepsInv, SleepTyped, Prepared, OneTimer, Sleep!PadsReadBack
<1>9. QED
  BY <1>1, <1>2, <1>3, <1>4, <1>5, <1>6, <1>7, <1>8 DEF Sleep!Next

\* Whatever fails in whatever call, the chip is put to sleep with its radio off and
\* SLP2 allowed, at most one timer runs, exactly one unless a later call failed,
\* and a pad reads back as it was set up (arduino_sleep_io.c).
THEOREM SleepSound == SleepSpec => []SleepInv
<1>1. Sleep!Init => SleepsInv /\ PadsKnown
  BY SleepInit DEF Sleep!Init, PadsKnown
<1>2. SleepsInv /\ PadsKnown /\ [Sleep!Next]_(Sleep!vars) => SleepsInv' /\ PadsKnown'
  BY SleepNext, PadsStayKnown
<1>3. SleepsInv => SleepInv
  BY SleepImplies DEF SleepInv
<1>4. QED
  BY <1>1, <1>2, <1>3, PTL DEF SleepSpec, Sleep!FairSpec, Sleep!Spec

-----------------------------------------------------------------------------
(* What a deepSleep that fails leaves behind *)

\* The part of the property that one step has to satisfy.
FailsCleanly ==
  answer' # answer /\ answer'.call = "deep" /\ ~answer'.ok =>
    /\ power' = power
    /\ stage = "loop" => timers' = timers /\ radio' = radio
    /\ stage = "arm" => timers' \in {Sleep!ArmedTimers(0), Sleep!ArmedTimers(req.time)}
    /\ stage = "force" => timers' = Sleep!ArmedTimers(0)

\* A timer that is cleared again leaves none: no other was running.
LEMMA ClearedLeavesNone ==
  ASSUME SleepsInv, stage = "force", timers' = [timers EXCEPT ![req.timer] = 0]
  PROVE  timers' = Sleep!ArmedTimers(0)
<1>1. timers \in [Timers -> 0 .. MaxTime] /\ req.timer \in Timers /\ timers[req.timer] > 0
  BY DEF SleepsInv, SleepTyped, Prepared, OneTimer
<1>2. \A t \in Timers : t # req.timer => timers[t] = 0
  <2> SUFFICES ASSUME NEW t \in Timers, t # req.timer PROVE timers[t] = 0
    OBVIOUS
  <2>1. timers[t] \in 0 .. MaxTime
    BY <1>1
  <2>2. ~(timers[t] > 0)
    BY <1>1 DEF SleepsInv, OneTimer
  <2>3. QED
    BY <2>1, <2>2, SleepAssumption DEF Sleep!SleepAssumption
<1>3. timers' = [t \in Timers |-> IF t = req.timer THEN 0 ELSE timers[t]]
  BY <1>1
<1>4. QED
  BY <1>2, <1>3 DEF Sleep!ArmedTimers

\* A deepSleep that ends in its first, its third or its last step.
LEMMA DeepSleepFails ==
  ASSUME NEW time \in 0 .. MaxTime, NEW t \in Timers \cup {BadTimer}, Sleep!DeepSleep(t, time)
  PROVE  FailsCleanly
<1>1. stage = "loop" /\ power' = power /\ timers' = timers
  BY DEF Sleep!DeepSleep, Sleep!InLoop
<1>2. answer' = answer \/ radio' = radio
  BY DEF Sleep!DeepSleep
<1>3. QED
  BY <1>1, <1>2 DEF FailsCleanly

\* Arming either returns with what is left on the timer asked for, or goes on.
LEMMA ArmFails == Sleep!Arm => FailsCleanly
<1> SUFFICES ASSUME Sleep!Arm PROVE FailsCleanly
  OBVIOUS
<1>1. stage = "arm" /\ power' = power
  BY DEF Sleep!Arm
<1>2. timers' \in {Sleep!ArmedTimers(0), Sleep!ArmedTimers(req.time)}
  BY DEF Sleep!Arm
<1>3. QED
  BY <1>1, <1>2 DEF FailsCleanly

\* A chip that refuses is left without a timer.
LEMMA ForceDownFails == SleepsInv /\ Sleep!ForceDown => FailsCleanly
<1> SUFFICES ASSUME SleepsInv, Sleep!ForceDown PROVE FailsCleanly
  OBVIOUS
<1>1. stage = "force"
  BY DEF Sleep!ForceDown
<1>2. CASE Sleep!Return("deep", TRUE, FALSE)
  BY <1>2 DEF FailsCleanly, Sleep!Return
<1>3. CASE timers' = [timers EXCEPT ![req.timer] = 0] /\ UNCHANGED power
  BY <1>1, <1>3, ClearedLeavesNone DEF FailsCleanly
<1>4. QED
  BY <1>2, <1>3 DEF Sleep!ForceDown

\* Every other step returns from another call, or from none.
LEMMA OthersDoNotFail ==
  ASSUME answer' = answer \/ answer'.call # "deep"
  PROVE  FailsCleanly
  BY DEF FailsCleanly

\* Every step satisfies it: only the three steps of deepSleep return from it.
LEMMA FailsCleanlyNext == SleepsInv /\ [Sleep!Next]_(Sleep!vars) => FailsCleanly
<1> SUFFICES ASSUME SleepsInv, [Sleep!Next]_(Sleep!vars) PROVE FailsCleanly
  OBVIOUS
<1>1. ASSUME NEW time \in 0 .. MaxTime, Sleep!LightSleep(time) PROVE FailsCleanly
  BY <1>1, OthersDoNotFail DEF Sleep!LightSleep, Sleep!Return
<1>2. ASSUME NEW time \in 0 .. MaxTime, NEW t \in Timers \cup {BadTimer}, Sleep!DeepSleep(t, time) PROVE FailsCleanly
  BY <1>2, DeepSleepFails
<1>3. CASE Sleep!EndLightSleep
  BY <1>3, OthersDoNotFail DEF Sleep!EndLightSleep, Sleep!Return
<1>4. CASE Sleep!Settled
  BY <1>4, OthersDoNotFail DEF Sleep!Settled
<1>5. CASE Sleep!Arm \/ Sleep!ForceDown
  BY <1>5, ArmFails, ForceDownFails
<1>6. ASSUME NEW p \in Pads, Sleep!ClearWakeupPad(p) PROVE FailsCleanly
  BY <1>6, OthersDoNotFail DEF Sleep!ClearWakeupPad, Sleep!Return
<1>7. ASSUME NEW p \in Pads, Sleep!PadEdge(p) PROVE FailsCleanly
  BY <1>7, OthersDoNotFail DEF Sleep!PadEdge, Sleep!Boot
<1>8. ASSUME NEW p \in Pads, NEW e \in Sleep!Edges \cup {Sleep!NoEdge}, NEW u \in Sleep!Pulls, Sleep!SetWakeupPad(p, e, u)
      PROVE  FailsCleanly
  <2>1. CASE Sleep!Return("pad", pads'[p].set = Sleep!PadSettings(e, u), FALSE)
    BY <2>1, OthersDoNotFail DEF Sleep!Return
  <2>2. CASE Sleep!Return("pad", FALSE, TRUE)
    BY <2>2, OthersDoNotFail DEF Sleep!Return
  <2>3. CASE Sleep!Return("bad pad", FALSE, FALSE)
    BY <2>3, OthersDoNotFail DEF Sleep!Return
  <2>4. QED
    BY <1>8, <2>1, <2>2, <2>3, Zenon DEF Sleep!SetWakeupPad
<1>9. CASE Sleep!FallAsleep \/ UNCHANGED Sleep!vars
  BY <1>9, OthersDoNotFail DEF Sleep!FallAsleep, Sleep!vars
<1>10. CASE Sleep!Tick
  BY <1>10, OthersDoNotFail DEF Sleep!Tick, Sleep!Boot
<1>11. QED
  BY <1>1, <1>2, <1>3, <1>4, <1>5, <1>6, <1>7, <1>8, <1>9, <1>10 DEF Sleep!Next

\* A deepSleep that fails never forces the chip down nor turns a radio on; before
\* the timer is armed it leaves the older timer alone, and after that no timer but
\* its own, none if luat_pm_force refused (arduino_sleep_io.c).
THEOREM FailedSleepIsClean == SleepSpec => FailedSleepEffects
<1>1. Sleep!Init => SleepsInv /\ PadsKnown
  BY SleepInit DEF Sleep!Init, PadsKnown
<1>2. SleepsInv /\ PadsKnown /\ [Sleep!Next]_(Sleep!vars) => SleepsInv' /\ PadsKnown'
  BY SleepNext, PadsStayKnown
<1>3. SleepsInv /\ [Sleep!Next]_(Sleep!vars) => [FailsCleanly]_(Sleep!vars)
  BY FailsCleanlyNext
<1>4. SleepSpec => [][FailsCleanly]_(Sleep!vars)
  BY <1>1, <1>2, <1>3, PTL DEF SleepSpec, Sleep!FairSpec, Sleep!Spec
<1>5. QED
  BY <1>4 DEF FailsCleanly, FailedSleepEffects, Sleep!FailedSleepEffects

=============================================================================
