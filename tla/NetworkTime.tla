------------------------------ MODULE NetworkTime ------------------------------
(***************************************************************************)
(* getLocalTime (WTime.cpp) with the waiting loops of AIR780EPMModem.cpp:  *)
(* network time first, then SNTP from up to three servers, within a time   *)
(* budget.  What the modem and the servers answer is chosen at each poll.  *)
(***************************************************************************)
EXTENDS Integers, FiniteSets

CONSTANTS
  NServers,      \* kServerCount
  Wrap,          \* millis() counts modulo 2^32, here modulo Wrap
  Budgets,       \* the waiting times a sketch passes
  NitzBudget,    \* the longest wait for network time, 3000 ms
  ServerBudget,  \* kMaxPerServerNtpMs
  MinAttempt,    \* kMinNtpAttemptMs
  TimePoll, NetPoll, UdpPoll,  \* the delays of the loops: 250, 500 and 50 ms
  MaxDns,        \* the longest that resolving a name takes
  Offsets,       \* the offsets from UTC a sketch configures
  Quarter,       \* a quarter of an hour, the unit of the SDK's time zone
  East, West     \* its limits, 56 and 48 quarters

TimeAssumption ==
  /\ NServers \in Nat \ {0} /\ Budgets \subseteq Nat /\ Offsets \subseteq Int
  /\ {MinAttempt, TimePoll, NetPoll, UdpPoll, Quarter} \subseteq Nat \ {0}
  /\ {NitzBudget, ServerBudget, MaxDns, East, West} \subseteq Nat
  /\ TimePoll <= NetPoll /\ UdpPoll <= NetPoll
  /\ Wrap \in Nat /\ \A ms \in Budgets \cup {0} : Wrap > ms + MaxDns + 2 * NetPoll

VARIABLES
  pc,      \* "idle", "poll" in a loop of Modem, "servers", "resolve", "udp"
  now,     \* millis()
  call,    \* the call in progress: its name, when it started, its budget
  wait,    \* the loop or the attempt in progress: what for, since when, how
           \* long, and whether only its final check is left
  server,  \* the next server of arduinoTimeTryNtp
  socket,  \* the UDP socket is open
  clock,   \* the system's time: "unset", "old" (after 2020, before the build's
           \* limit of November 2023), "set"
  named,   \* the servers that are not the empty string
  custom, offset, tz,   \* gTimeConfig, and the time zone of the SDK
  spent,   \* history: time since the call started, without wrapping
  tried,   \* history: the servers it has tried
  asked,   \* history: the offset the sketch last asked for, in a set, {} if none
  result   \* history: what the last call returned, and the shift of its time

config == <<named, custom, offset, tz, asked>>
vars == <<pc, now, call, wait, server, socket, clock, config, spent, tried, result>>

Servers == 1 .. NServers
Loops   == {"network", "pdp", "time", "network time"}
Idle    == [for |-> "none", start |-> 0, budget |-> 0, last |-> FALSE]
NoCall  == [name |-> "none", start |-> 0, ms |-> 0]
Smaller(a, b) == IF a < b THEN a ELSE b

\* Mutant of Elapsed: the difference is not taken modulo 2^32.
ElapsedSigned(start) == now - start

Elapsed(start)   == (now - start) % Wrap
Remaining        == LET t == Elapsed(call.start) IN IF t >= call.ms THEN 0 ELSE call.ms - t

\* arduinoTimeRoundQuarterHours: to the nearest quarter, within the limits.
RoundQuarterHours(seconds) ==
  LET size == ((IF seconds < 0 THEN -seconds ELSE seconds) + Quarter \div 2) \div Quarter
  IN  IF seconds < 0 THEN -Smaller(size, West) ELSE Smaller(size, East)

Init ==
  /\ pc = "idle" /\ now \in {0, Wrap - 3}
  /\ call = NoCall /\ wait = Idle
  /\ server = 1 /\ socket = FALSE /\ clock \in {"unset", "old"}
  /\ named = Servers /\ custom = FALSE /\ offset = 0 /\ tz = 0 /\ asked = {}
  /\ spent = 0 /\ tried = {} /\ result = [ok |-> FALSE, shift |-> 0]

-----------------------------------------------------------------------------
(* Configuration *)

\* What a POSIX time zone says of an offset: the time to add to reach UTC.
PosixText(seconds) ==
  IF seconds > 0 THEN [sign |-> "-", size |-> seconds] ELSE [sign |-> "+", size |-> -seconds]

\* arduinoTimeParseFixedOffsetTz: the number after the name of the zone, whose
\* sign is turned round.  What follows, the rules for daylight saving, is not read.
ParseFixedOffsetTz(text) == -(IF text.sign = "-" THEN -text.size ELSE text.size)

\* arduinoTimeSetServers: no server named means the defaults.
SetServers(requested) == named' = IF requested = {} THEN Servers ELSE requested

ApplyOffset(seconds) ==
  /\ custom' = TRUE /\ offset' = seconds
  /\ tz' = RoundQuarterHours(seconds)

\* configTime with the sum of both offsets, or configTzTime with a zone.
Configure(seconds, requested) ==
  /\ pc = "idle"
  /\ SetServers(requested)
  /\ ApplyOffset(seconds) \/ ApplyOffset(ParseFixedOffsetTz(PosixText(seconds)))
  /\ asked' = {seconds}
  /\ UNCHANGED <<pc, now, call, wait, server, socket, clock, spent, tried, result>>

\* configTzTime of a zone without a number: the time zone of the SDK counts
\* again, as the last configTime or the network has left it.
ConfigureUnknown(requested) ==
  /\ pc = "idle"
  /\ SetServers(requested)
  /\ custom' = FALSE /\ asked' = {}
  /\ UNCHANGED <<pc, now, call, wait, server, socket, clock, offset, tz, spent, tried, result>>

-----------------------------------------------------------------------------
(* Calls *)

\* arduinoTimeFillTm: seconds that are added to UTC.
Shift == IF custom THEN offset ELSE tz * Quarter

\* The history of a call ends with it.
Return(ok) ==
  /\ pc' = "idle" /\ wait' = Idle /\ call' = NoCall /\ server' = 1
  /\ spent' = 0 /\ tried' = {}
  /\ result' = [ok |-> ok, shift |-> Shift]

\* The call goes on.
Goes == UNCHANGED <<call, result>>

Wait(loop, start, budget) ==
  /\ pc' = "poll"
  /\ wait' = [for |-> loop, start |-> start, budget |-> budget, last |-> FALSE]
  /\ UNCHANGED <<server, result, tried>>

CanStartNtp(left) == named # {} /\ left >= MinAttempt

Begin(name, ms) ==
  /\ call' = [name |-> name, start |-> now, ms |-> ms]
  /\ UNCHANGED spent

GetLocalTime(ms) ==
  /\ pc = "idle"
  /\ LET nitz == Smaller(ms, NitzBudget)
     IN  CASE clock = "set" -> Return(TRUE)
           [] clock # "set" /\ nitz > 0 -> Begin("getLocalTime", ms) /\ Wait("time", now, nitz)
           [] OTHER -> Return(FALSE)
  /\ UNCHANGED <<now, socket, clock, config>>

\* waitForNetwork, waitForTimeSync, waitForNetworkTime, activatePDP.
WaitFor(loop, ms) ==
  /\ pc = "idle"
  /\ Begin(loop, ms) /\ Wait(loop, now, ms)
  /\ UNCHANGED <<now, socket, clock, config>>

-----------------------------------------------------------------------------
(* The loops of Modem *)

\* getTimeStatus: any time after 2020 is synced and valid; whether the network
\* told it is asked of the modem.
TimeStatus == {[synced |-> clock # "unset", nitzSynced |-> nitz] : nitz \in BOOLEAN}

Answers(loop) ==
  CASE loop = "time"         -> {t.synced : t \in TimeStatus}
    [] loop = "network time" -> {t.synced /\ t.nitzSynced : t \in TimeStatus}
    [] OTHER                 -> BOOLEAN

\* getLocalTime goes on to the servers when the wait for the time has failed, or
\* has been content with an old one.
StartNtp ==
  IF CanStartNtp(Remaining)
  THEN Wait("network", now, Remaining) /\ UNCHANGED <<call, spent>>
  ELSE Return(FALSE)

\* The condition the loop waits for is met.
LoopSucceeds ==
  CASE call.name = wait.for \/ (wait.for = "time" /\ clock = "set") -> Return(TRUE)
    [] call.name # wait.for /\ wait.for = "time" /\ clock # "set" -> StartNtp
    [] call.name # wait.for /\ wait.for = "network" ->
         Wait("pdp", now, Remaining) /\ UNCHANGED <<call, spent>>
    [] OTHER -> /\ pc' = "servers" /\ server' = 1 /\ wait' = Idle
                /\ Goes /\ UNCHANGED <<spent, tried>>

LoopFails ==
  IF call.name # wait.for /\ wait.for = "time" THEN StartNtp ELSE Return(FALSE)

DelayOf(loop) == IF loop \in {"network", "pdp"} THEN NetPoll ELSE TimePoll

DelayAndTest ==
  /\ now' = (now + DelayOf(wait.for)) % Wrap /\ spent' = spent + DelayOf(wait.for)
  /\ wait' = [wait EXCEPT !.last = (now' - wait.start) % Wrap >= wait.budget]
  /\ Goes /\ UNCHANGED <<pc, server, tried>>

\* do { check; delay } while (elapsed < budget), and a final check: one check,
\* and, if it fails, the delay and the test that follow it.
Poll ==
  /\ pc = "poll"
  /\ \E ready \in Answers(wait.for) :
       \/ ready /\ LoopSucceeds /\ UNCHANGED now
       \/ ~ready /\ wait.last /\ LoopFails /\ UNCHANGED now
       \/ ~ready /\ ~wait.last /\ DelayAndTest
  /\ UNCHANGED <<socket, clock, config>>

-----------------------------------------------------------------------------
(* arduinoTimeTryNtp: the servers one after the other *)

Try ==
  /\ tried' = tried \cup {server}
  /\ \/ server' = server + 1 /\ UNCHANGED <<pc, wait, socket>>
     \/ /\ pc' = "resolve" /\ socket' = TRUE /\ UNCHANGED server
        /\ wait' = [Idle EXCEPT !.for = "server", !.start = now,
                                !.budget = Smaller(Remaining, ServerBudget)]
  /\ Goes /\ UNCHANGED spent

\* Mutant of NextServer: the first empty name ends the search.
NextServerStops ==
  /\ pc = "servers"
  /\ IF Remaining < MinAttempt \/ server \notin named
     THEN Return(FALSE) /\ UNCHANGED socket
     ELSE Try
  /\ UNCHANGED <<now, clock, config>>

\* Empty names are skipped; a socket that does not open costs the server its turn.
NextServer ==
  /\ pc = "servers"
  /\ \/ /\ server > NServers \/ Remaining < MinAttempt
        /\ Return(FALSE) /\ UNCHANGED socket
     \/ /\ server \in Servers \ named /\ Remaining >= MinAttempt
        /\ server' = server + 1 /\ Goes /\ UNCHANGED <<pc, wait, socket, tried, spent>>
     \/ /\ server \in named /\ Remaining >= MinAttempt
        /\ Try
  /\ UNCHANGED <<now, clock, config>>

\* Mutant of GiveUpServer: the same server is asked again.
GiveUpServerRetries ==
  /\ pc' = "servers" /\ server' = server /\ socket' = FALSE /\ wait' = Idle
  /\ Goes /\ UNCHANGED tried

\* The socket is closed and the next server gets its turn.
GiveUpServer ==
  /\ pc' = "servers" /\ server' = server + 1 /\ socket' = FALSE /\ wait' = Idle
  /\ Goes /\ UNCHANGED tried

\* beginPacket resolves the name, which no budget limits; the request is sent.
Resolve ==
  /\ pc = "resolve"
  /\ \E d \in 0 .. MaxDns : now' = (now + d) % Wrap /\ spent' = spent + d
  /\ GiveUpServer \/ (pc' = "udp" /\ Goes /\ UNCHANGED <<server, socket, wait, tried>>)
  /\ UNCHANGED <<clock, config>>

\* An answer that does not read, or names a time before the limit, ends the
\* server's turn; a good one sets the clock.
TakeAnswer ==
  \/ GiveUpServer /\ UNCHANGED <<clock, spent>>
  \/ clock' = "set" /\ socket' = FALSE /\ Return(TRUE)

\* The answer is waited for; the time runs since before the name was resolved.
AwaitAnswer ==
  /\ pc = "udp" /\ Elapsed(wait.start) < wait.budget
  /\ \/ /\ now' = (now + UdpPoll) % Wrap /\ spent' = spent + UdpPoll
        /\ Goes /\ UNCHANGED <<pc, server, socket, wait, clock, tried>>
     \/ TakeAnswer /\ UNCHANGED now
  /\ UNCHANGED config

AnswerTimesOut ==
  /\ pc = "udp" /\ Elapsed(wait.start) >= wait.budget
  /\ GiveUpServer
  /\ UNCHANGED <<now, clock, config, spent>>

\* The network tells the time, and perhaps its time zone, here UTC.
Nitz ==
  /\ clock' = "set" /\ tz' \in {tz, 0}
  /\ UNCHANGED <<pc, now, call, wait, server, socket, named, custom, offset, asked,
                 spent, tried, result>>

Step == Poll \/ NextServer \/ Resolve \/ AwaitAnswer \/ AnswerTimesOut

Next ==
  \/ Step \/ Nitz
  \/ \E ms \in Budgets : GetLocalTime(ms) \/ \E loop \in Loops : WaitFor(loop, ms)
  \/ \E requested \in SUBSET Servers :
       ConfigureUnknown(requested) \/ \E s \in Offsets : Configure(s, requested)

Spec == Init /\ [][Next]_vars

\* delay() and the SDK's calls return.
FairSpec == Spec /\ WF_vars(Step)
-----------------------------------------------------------------------------
(* Properties *)

\* Every variable has the values its declaration promises.
TypeOK ==
  /\ pc \in {"idle", "poll", "servers", "resolve", "udp"} /\ now \in 0 .. Wrap - 1
  /\ wait.for \in Loops \cup {"none", "server"} /\ server \in 1 .. NServers + 1
  /\ clock \in {"unset", "old", "set"} /\ named \in SUBSET Servers /\ tried \subseteq Servers
  /\ custom \in BOOLEAN /\ offset \in Offsets \cup {0} /\ tz \in -West .. East

\* How far a call may exceed its budget: the last delays of two waits, or a name
\* that resolves slowly in the last attempt.
Overrun ==
  LET slow == MaxDns - MinAttempt
  IN  IF slow > 2 * NetPoll THEN slow ELSE 2 * NetPoll

\* A call ends within its budget and a fixed excess, also when millis() wraps
\* meanwhile; the socket is open only while a server is asked; a POSIX zone is read
\* with the right sign, and the SDK's time zone is the quarter nearest to the
\* configured offset, within its limits.
TimeInv ==
  /\ TypeOK
  /\ pc # "idle" => spent <= call.ms + Overrun
  /\ socket <=> pc \in {"resolve", "udp"}
  /\ pc = "udp" => tried = {s \in named : s <= server}
  /\ \A s \in -Quarter * (West + 1) .. Quarter * (East + 1) :
       LET q == RoundQuarterHours(s) * Quarter
       IN  /\ ParseFixedOffsetTz(PosixText(s)) = s
           /\ 2 * (s - q) \in -Quarter .. Quarter \/ RoundQuarterHours(s) \in {-West, East}

\* getLocalTime is true only with a valid clock and the zone that was asked for;
\* it is false only when it has no time left for an attempt or has tried every
\* server.  A wait is false only after its whole budget, and one for the time is
\* true only when the clock is past 2020.
AnswersHonestly ==
  [][pc # "idle" /\ pc' = "idle" =>
       /\ result'.ok /\ call.name = "getLocalTime" =>
            clock' = "set" /\ (asked # {} => result'.shift \in asked)
       /\ result'.ok /\ call.name \in {"time", "network time"} => clock # "unset"
       /\ ~result'.ok =>
            \/ spent >= call.ms
            \/ /\ call.name = "getLocalTime"
               /\ spent > call.ms - MinAttempt \/ named \subseteq tried]_vars

\* Every call returns.
CallReturns == pc # "idle" ~> pc = "idle"

=============================================================================
