----------------------------- MODULE Schedules -----------------------------
(***************************************************************************)
(* daily.py with mail/service.py, mail/imap.py and the mail's send() of    *)
(* main.py: one task sleeps until the next of the day's times, reads what  *)
(* arrived since the place it remembers, saves the new place and sends one *)
(* message.  The bot is stopped and started, the machine is suspended, the *)
(* mailbox is renumbered, and reading, saving and sending fail.            *)
(***************************************************************************)
EXTENDS Integers, Sequences, FiniteSets, FiniteSetsExt

CONSTANTS
    DAY,             \* ticks of the clock in a day
    Times,           \* the times of the day, as ticks into it
    GRACE,           \* how late a start may still send
    FIRST_RUN,       \* FIRST_RUN_HOURS, in ticks
    MAX_PER_RUN,     \* the most messages one run looks at
    MaxWall, MaxMails, MaxStarts, Generations, MaxSchedFaults     \* bounds

ASSUME SchedulesAre ==
    /\ {DAY, GRACE, FIRST_RUN, MAX_PER_RUN, MaxWall, MaxMails, MaxStarts, Generations, MaxSchedFaults} \subseteq Nat
    /\ Times \subseteq 0 .. DAY - 1 /\ Times # {} /\ MAX_PER_RUN > 0 /\ Generations > 0

VARIABLES
    wall,      \* the wall clock
    loop,      \* the task: where it stands, and for how much longer it sleeps
    mailRun,   \* the run under way: its messages, the newest uid seen and the UIDVALIDITY with it
    box,       \* the mailbox: when each message arrived, in the order they did
    validity,  \* its UIDVALIDITY
    place,     \* mail_state.json
    starts, schedFaults,
    told,      \* history: in how many digests a message was
    dropped,   \* history: messages that a failure, a stop or a limit kept out of one
    since      \* history: messages sent, and starts, since the last of the times

schedVars == <<wall, loop, mailRun, box, validity, place, starts, schedFaults, told, dropped, since>>

Mails == DOMAIN box
\* A renumbered mailbox starts again from one.
Uid(m) == (Generations - validity) * MaxMails + m
NoPlace == [uid |-> 0, validity |-> 0]
NoRun == [mails |-> {}, newest |-> 0, validity |-> 0]

Today == wall - (wall % DAY)
IsTime(t) == (t % DAY) \in Times
\* min of today's later times, else tomorrow's first.
NextRun == CHOOSE t \in wall + 1 .. wall + DAY : IsTime(t) /\ \A u \in wall + 1 .. t - 1 : ~IsTime(u)
Wait == Max({NextRun - wall, 1})
\* The last of today's times that has passed; before the first of them, yesterday's FIRST time.
Previous ==
    LET passed == {Today + t : t \in Times}  before == {p \in passed : p <= wall}
    IN  IF before # {} THEN Max(before) ELSE Min(passed) - DAY

Off_ == [at |-> "off", left |-> 0]
Asleep == [at |-> "waiting", left |-> Wait]
AtStep(step) == [at |-> step, left |-> 0]

SchedInit ==
    /\ wall = 0 /\ loop = Off_ /\ mailRun = NoRun
    /\ box = <<>> /\ validity = 1 /\ place = NoPlace
    /\ starts = 0 /\ schedFaults = 0
    /\ told = [m \in 1 .. MaxMails |-> 0] /\ dropped = {} /\ since = [sent |-> 0, starts |-> 0]

outside == <<wall, box, validity>>
Faulted(n) == schedFaults + n <= MaxSchedFaults /\ schedFaults' = schedFaults + n

----------------------------------------------------------------------------
(* The clock and the mailbox *)

Passing(ticks) ==
    /\ wall + ticks <= MaxWall /\ wall' = wall + ticks
    /\ since' = IF \E t \in wall + 1 .. wall + ticks : IsTime(t) THEN [sent |-> 0, starts |-> 0] ELSE since
\* A sleep that is over is not overslept.
Tick ==
    /\ Passing(1)
    /\ loop.at = "waiting" => loop.left > 0
    /\ loop' = IF loop.at = "waiting" THEN [loop EXCEPT !.left = @ - 1] ELSE loop
    /\ UNCHANGED <<mailRun, box, validity, place, starts, schedFaults, told, dropped>>
\* The lid is closed for some hours: the loop's clock stands still meanwhile.
Suspended ==
    /\ Faulted(1) /\ Passing(DAY \div 2)
    /\ UNCHANGED <<loop, mailRun, box, validity, place, starts, told, dropped>>
Arrives ==
    /\ Len(box) < MaxMails /\ box' = Append(box, wall)
    /\ UNCHANGED <<wall, loop, mailRun, validity, place, starts, schedFaults, told, dropped, since>>
Renumbered ==
    /\ validity < Generations /\ validity' = validity + 1
    /\ UNCHANGED <<wall, loop, mailRun, box, place, starts, schedFaults, told, dropped, since>>

----------------------------------------------------------------------------
(* DailyMessage *)

Fires == loop' = AtStep("reading") /\ since' = [since EXCEPT !.sent = @ + 1]
StartLoop ==
    /\ loop.at = "off" /\ starts < MaxStarts /\ starts' = starts + 1
    /\ IF wall - Previous < GRACE
       THEN loop' = AtStep("reading") /\ since' = [sent |-> since.sent + 1, starts |-> since.starts + 1]
       ELSE loop' = Asleep /\ since' = [since EXCEPT !.starts = @ + 1]
    /\ UNCHANGED <<outside, mailRun, place, schedFaults, told, dropped>>
Fire ==
    /\ loop.at = "waiting" /\ loop.left = 0
    /\ Fires
    /\ UNCHANGED <<outside, mailRun, place, starts, schedFaults, told, dropped>>
\* stop(), or the process dies: whatever the task was doing is given up.
Stop ==
    /\ loop.at # "off"
    /\ loop' = Off_ /\ mailRun' = NoRun
    /\ dropped' = IF loop.at = "sending" THEN dropped \cup mailRun.mails ELSE dropped
    /\ UNCHANGED <<outside, place, starts, schedFaults, told, since>>

(* MailService.run and send() *)

Step(at) == loop.at = at /\ UNCHANGED <<outside, starts, since>>
Done == loop' = Asleep /\ mailRun' = NoRun

SwitchedOff ==
    /\ Step("reading") /\ Done
    /\ UNCHANGED <<place, schedFaults, told, dropped>>
\* The digest is one line about the error; the next run starts from the same place.
MailboxDown ==
    /\ loop.at \in {"reading", "again"} /\ Step(loop.at) /\ Done
    /\ Faulted(1)
    /\ UNCHANGED <<place, told, dropped>>

\* SEARCH "UID n:*" answers at least the last message, and SINCE takes whole days.
Searched(uid) ==
    IF uid # 0 THEN {m \in Mails : Uid(m) > uid \/ m = Len(box)}
    ELSE {m \in Mails : box[m] >= (wall - FIRST_RUN) - ((wall - FIRST_RUN) % DAY)}
AnySearched(uid) == Searched(uid)
NewSince(uid) == {m \in Searched(uid) : uid = 0 \/ Uid(m) > uid}
Newest(uid) == IF NewSince(uid) = {} THEN uid ELSE Max({Uid(m) : m \in NewSince(uid)})
Latest(mails) == {m \in mails : Cardinality({n \in mails : n > m}) < MAX_PER_RUN}
\* _state.write: a file that cannot be written is logged, and the old place stays.
PlaceSaved == place' = [uid |-> mailRun.newest, validity |-> mailRun.validity]
Saves ==
    \/ PlaceSaved /\ UNCHANGED schedFaults
    \/ UNCHANGED place /\ Faulted(1)

\* What was found; "failed" are the messages whose FETCH is refused.
Found(uid) ==
    /\ dropped' = dropped \cup (NewSince(uid) \ Latest(NewSince(uid)))
                      \cup (IF uid = 0 THEN Mails \ Searched(0) ELSE {})
    /\ loop' = AtStep("sorting")
    /\ mailRun' = [mails |-> Latest(NewSince(uid)), newest |-> Newest(uid), validity |-> validity]
Unfetched(uid) ==
    /\ \E m \in Latest(NewSince(uid)) :
           /\ dropped' = dropped \cup (NewSince(uid) \ Latest(NewSince(uid))) \cup {m}
                             \cup (IF uid = 0 THEN Mails \ Searched(0) ELSE {})
           /\ mailRun' = [mails |-> Latest(NewSince(uid)) \ {m}, newest |-> Newest(uid), validity |-> validity]
    /\ loop' = AtStep("sorting")
    /\ Faulted(1)
Fetched(uid) == (UNCHANGED schedFaults /\ Found(uid)) \/ Unfetched(uid)

\* Another UIDVALIDITY than the one remembered: the answer is thrown away.
Renewed == place.validity \notin {0, validity}
ReadMail ==
    /\ Step("reading")
    /\ IF Renewed THEN loop' = AtStep("again") /\ UNCHANGED <<mailRun, dropped, schedFaults>>
                  ELSE Fetched(place.uid)
    /\ UNCHANGED <<place, told>>
ReadAgain ==
    /\ Step("again") /\ Fetched(0)
    /\ UNCHANGED <<place, told>>
\* The messages are sorted, those of a failed batch as "other", and the place is saved.
Sorted ==
    /\ Step("sorting")
    /\ Saves
    /\ IF mailRun.mails = {} THEN Done ELSE loop' = AtStep("sending") /\ UNCHANGED mailRun
    /\ UNCHANGED <<told, dropped>>
Sent ==
    /\ Step("sending") /\ Done
    /\ told' = [m \in DOMAIN told |-> told[m] + (IF m \in mailRun.mails THEN 1 ELSE 0)]
    /\ UNCHANGED <<place, schedFaults, dropped>>
SendFails ==
    /\ Step("sending") /\ Done
    /\ Faulted(1)
    /\ dropped' = dropped \cup mailRun.mails
    /\ UNCHANGED <<place, told>>

SchedNext ==
    \/ Tick \/ Suspended \/ Arrives \/ Renumbered
    \/ StartLoop \/ Fire \/ Stop
    \/ SwitchedOff \/ MailboxDown \/ ReadMail \/ ReadAgain \/ Sorted \/ Sent \/ SendFails

SchedSpec == SchedInit /\ [][SchedNext]_schedVars

----------------------------------------------------------------------------
(* Properties *)

SchedTypeOK ==
    /\ loop \in [at : {"off", "waiting", "reading", "again", "sorting", "sending"}, left : 0 .. DAY]
    /\ loop.left > 0 => loop.at = "waiting"
    /\ mailRun.mails \subseteq Mails /\ Cardinality(mailRun.mails) <= MAX_PER_RUN
    /\ loop.at \notin {"sorting", "sending"} => mailRun = NoRun
    /\ place.validity \in 0 .. validity /\ place.uid \in Nat
    /\ Len(box) <= MaxMails /\ dropped \subseteq Mails

\* A message that lies behind the remembered place was in one digest, and none is in two.  It was in
\* none if something that the code logs or limits kept it out: a stop or a failed send between
\* saving and sending, a FETCH that was refused, more messages than one run takes, or a first
\* reading that goes back only some hours; and in more after a renumbering, or when the place could
\* not be saved.
EachMailOnce ==
    \A m \in Mails :
        /\ told[m] <= validity + schedFaults
        /\ loop.at # "sending" /\ place.validity = validity /\ Uid(m) <= place.uid
              => told[m] > 0 \/ m \in dropped

\* Each of the day's times brings one message, and each start in between at most one more.
OneMessageATime == since.sent <= 1 + since.starts

\* No mail is reported twice or passed over, and no time of the day or start sends two messages,
\* wherever the loop is stopped, started late, suspended or refused by mailbox, disk or Telegram.
DigestsComeOnce == EachMailOnce /\ OneMessageATime

=============================================================================
