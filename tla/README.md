# Garage door controller: TLA+ models, checks and proofs

The program (`src/MainSketch`) runs on an ESP32.  It opens and closes a garage
door when an authorised phone sends an SMS through a SIM800L modem, sends SMSs
of its own (status reports, warnings), measures a temperature and keeps two
watchdogs content.  This directory models it in TLA+, checks the models with
TLC and proves most of the safety properties with TLAPS.

## 1. Inventory

Everything runs in one thread, `loop()` of `MainSketch.ino`, except the
callback of a 10 ms ticker, which runs in the timer's task on the other core
and only raises flags.  `loop()` polls: it runs the handlers of the raised
flags, then `GsmLogic_loop`.  Handlers call each other directly; results come
back through callbacks set up at start.

| Component | State | Operations | What is hard | What makes it correct |
|---|---|---|---|---|
| `GsmCommands.ino` | received text, current parser and its time-out | feed text to the parser; time-out; purge of stale text; send a command | text comes in parts; unsolicited lines between replies; late, lost or stray replies; the text of an SMS looks like a reply | each notification handled once, in order; a wait always ends |
| `GsmLogic.ino` | state machine, what is known of credit and signal, `SmsIsReceived`, queue of SMSs | 2 s tick, parser results, SMS commands | the state machine and the parser are two automata that must agree; messages are peeked at one time and popped at another | parser fits state; a message leaves only when confirmed; door moved only on an authorised order |
| `cppQueue.cpp` | slots, `in`, `out`, `cnt` | push, pop, peek, drop, peekIdx, peekPrevious, flush | wrap-around, full and empty, four kinds | behaves as a bounded sequence |
| `DoorControl.ino` | pulse state and counter, four outputs | open, close, 10 ms handler | an order in the middle of the other circuit's pulse; merged ticks | never both circuits; pulse long enough; pulse ends |
| `Timer1Code.ino` | counters and flags | callback, `Timer1MailLoop` | callback races the tests and clears of the flags | no tick is forgotten |
| `MainSketch.ino`, `WDT.ino` | - | `setup`, `loop`, order of handlers, restart of a hung `loop()` | restart between two steps | outputs are safe afterwards |
| `EWDT.ino` | two counters, pin | 1 s handler, "1 ms" handler | the two handlers share counters | the external watchdog is reset in time |
| `DS18x20SingleWire.ino`, `util/FilteredValue.h` | sensor state machine, filtered value and its age | 100 ms and 1 s handlers | timing by order of handlers; noisy or foreign devices; unplugging; signed arithmetic | reads only finished conversions; shows only recent values; the value is the mean of the readings |
| `SignalLEDControl.ino` | blink counter and segment | 10 ms handler | merged ticks, restarts | goes on blinking |
| `circular_queue/circular_queue.h`, `circular_queue_mp.h` | ring, its two positions, a mutex | push, push_n, pop, pop_n, peek, flush, for_each, for_each_rev_requeue, for_each_requeue | producers and consumer run at once without a lock; slots are reused | a FIFO channel; a consumer's call ends |
| `SerialPrint.ino`, `eepromDataStructs.h`, `Delegate.h`, `MultiDelegate.h` | - | logging; unused | - | - |

`circular_queue/` is a library that comes with the sketch; no file of the
sketch includes it.

The hazards these components are exposed to, each at its line and with the
properties that watch it, are listed in `PROJECT.json`.

## 2. Modules

| Module | Models | Notes |
|---|---|---|
| `GsmText` | the text of the modem and how it is searched and cut | text is a sequence of pieces: a result line, an SMS header or body, RING, CLIP |
| `GsmLogic` | `GsmCommands.ino` and `GsmLogic.ino`, with the modem and network around them | one action per handler; extends `GsmText`; implements `SmsService` (a message is *given* while a confirmation is awaited, *confirmed* when the parser of the send command has found one) |
| `SmsService` | what the program promises its correspondents (abstract) | the messages that wait, the one the modem was given, the last SMS dealt with |
| `MCGsmLogic` | values for TLC | |
| `Timer1` | `Timer1Code.ino` | one step per flag raised, tested or cleared; extended by the modules whose handlers it calls |
| `DoorControl` | `DoorControl.ino` | a handler leaves its circuit calls in `calls`, and each takes effect in a step of its own |
| `SignalLED` | `SignalLEDControl.ino`, for this board | extended by `MainLoop` |
| `MainLoop` | `loop()`, callback, door, LED and watchdog together | extends `Timer1`, `DoorControl` and `SignalLED`; the GSM part is reduced to what it can do to the door; implements `DoorOpener` |
| `DoorOpener` | what the program promises the door opener (abstract) | the button wanted, the buttons pressed, and for how long |
| `BoundedQueue` | what `cppQueue.h` promises (abstract) | contents as a sequence |
| `cppQueue` | `cppQueue.cpp` | implements `BoundedQueue` through the mapping `Contents` |
| `FifoChannel` | what `circular_queue` promises (abstract) | contents as a sequence; what the producers offer; a call by several threads takes effect in one step between its start and its return, and appends the first of the elements offered, in order |
| `circular_queue` | `circular_queue.h` | one step per access to what the threads share |
| `circular_queue_mp` | `circular_queue_mp.h`, and the base class along with it | extends `circular_queue`; implements `FifoChannel` through the mapping `Contents` |
| `DS18x20` | the temperature sensors and the age of the filtered value | extends `Timer1` and `Scratchpad`; time is counted in ticks |
| `FilteredValue` | the filter's arithmetic, on exact fractions | operators, compared with a weighted sum |
| `Scratchpad` | the arithmetic of `ReadTemp` | operators, compared with the data sheet's meaning of the bits |
| `MCDS18x20` | values for TLC | joins `DS18x20` and `FilteredValue` |
| `EWDT` | the external watchdog's pin | extends `Timer1` |
| `GsmTextProofs`, `GsmLogicProofs`, `GsmSmsProofs`, `MainLoopProofs`, `cppQueueProofs`, `DS18x20Proofs`, `circular_queueProofs`, `circular_queueRefines` | theorems and proofs | each extends the module it is about |

Variables bear the names of the code's variables.  Those the code does not
have are the environment (`replies`, `rx`, `delivered`, `plugged`, `delay`
...), the place `loop()` stands at (`pc`, `after`, `at`, `calls`) and ghosts
that remember what a property needs (`handled`, `inFlight`, `doorOrder`,
`waiting`, `held`, `age` ...); no guard reads a ghost.  The bounds
(`MaxSms`, `MaxReplies`, `MaxOrders` ...) are constants whose declarations say
so; they are conjuncts of guards of the environment, never of the program's
handlers.  Definitions marked `mutant` are the broken variants that each
property is known to detect; no specification uses them.

### The GSM part

`loop()` is one thread, so a handler is one action and the modem runs between
any two.  A parser call works off notifications in a `while`; this is a loop of
actions (`pc = "sms"`, `"ring"`), after which the parser goes on as `after`
says.  Text arrives in any number of pieces per read, so a notification may be
split at every boundary that the searches can tell apart; half a RING is
modelled with the character that the code then cuts.  `millis()` is abstract: a
time-out that is running may elapse at any run of the 100 ms handler, so late
and lost answers need no clock.  The modem's `Faults` are answers that come
late, are lost, are refused or lack a part.

### The timer, the door and `loop()`

The callback may take a step between any two of `loop()`; delays in handlers
are callback steps in a row.  At the two places where the GSM part handles
SMSs (`GsmLogic_loop` and `GsmLogic_100msHandler`), each SMS may open or close
the door or hang the program; `GsmLogic` says when it does.  A restart resets
everything, outputs included, as `setup()` leaves it.

### The temperature and the external watchdog

Here timing matters: `loop()` is done with a tick before the next one comes,
except in the `delay()`s which `GsmLogic_1sHandler` runs into (500 ms in
`SendSmsCommand`, 1000 ms in `ResetGsmModem`).  The callback still overtakes
`loop()` within a tick, so that a flag may be seen one tick late.  The time
OneWire transfers take (some 10 ms) is left out.  A "noisy" device may answer
badly at any time, a "foreign" one has a family code that the `switch` refuses
(DS18S20 is one: its `case` label is commented out).

### The lock-free queue

The producers and the consumer are threads.  An action is one load or store of
`m_inPos`, `m_outPos`, or of a slot that the other side may have an eye on;
what a thread does in between is its own and joins the access before it.
Memory is sequentially consistent here: the code's acquire and release fences
are taken to be enough for that.  A queue of class `circular_queue` has one
producer; of `circular_queue_mp`, several, whose calls a mutex keeps apart.

`for_each_requeue` stores `m_inPos` before it releases the old slot of the
element it puts back.  On a full queue `m_inPos` has then lapped: it equals
`m_outPos`, as in an empty queue (`Lapped`), and a push that finds room now
destroys the queue.  Nothing in the headers keeps clients from that, so the
model does not either; the ghost `overrun` remembers that it has happened.
What the headers promise is `Linearizable`, which is violated; everything else
they promise is `LinearizableUntilOverrun`, with no assumption about the
clients.  In `FifoChannel` the element put back takes up its old slot too until
it is released (`putBack`), since the code may refuse a push meanwhile.

## 3. Runs

Sizes are distinct states.

| Run | Shows | Bounds |
|---|---|---|
| `GsmNotifications` (2.4 M) | two SMSs of every sender and text, and a ring, arrive at any time, in parts, while replies may be lost: handled once and in order, and missed only in the ways that `MissedSmsExplained` lists; answered once and in order, and messages sent one at a time, as `SmsService` says; only authorised orders move the door; "SMS received" is forgotten only for deleted SMSs | 2 SMSs, 1 ring: enough for one notification behind another and one inside a reply |
| `GsmFaultyModem` (556 k) | late, lost and refused replies, and an SMS whose text reads OK or ERROR: parser fits state; the head of the queue is the message in flight; messages leave only when confirmed; `loop()` comes back with no command pending; and unless the modem goes on failing, the queue drains, in spite of what its failures have left behind | queue of 2, which fills and refuses: the SMS is answered, credit is low and the reset is announced; 1 expiry of the credit; two initialisation commands; no ring; replies that lack a part are left to the proofs |
| `GsmStrayReply`, `GsmSignalNeverExpires` | violations: see below | |
| `DoorPulse` (219 k) | callback against `loop()` with orders, hangs and restarts: all door, LED and timer properties, and the refinement of `DoorOpener` | 2 orders (one in the middle of the other's pulse, or the same again), pulse of 3 ticks, ratio 2, LED 2 ticks on and 1 off |
| `DoorAtPowerUp` | violation | |
| `QueueKeepsPromise` (4.8 k) | every method on a ring of 3 slots, of all four kinds, refines `BoundedQueue` | 3 slots, 3 records: full, wrapped and distinguishable |
| `CircularQueue` (563 k) | two producers and a consumer in all methods of both rings: refines `FifoChannel` until a push is accepted on a lapped ring, and the consumer's calls end | 2 elements in a ring of 3 slots, blocks of up to 2 of two values: blocks that wrap, fit in part or not at all; full, lapped and empty |
| `CircularQueueOverrun` | violation | the same |
| `Temperature` (1.1 M) | recent, returning and expiring values with a noisy, a healthy and a foreign device; conversions are finished unless disturbed; the filter's value is the weighted mean of its readings; bytes are read as the temperature they stand for | the real numbers: ratio 10, 75 ticks, 10 s, delays of 50 and 100 ticks; up to 4 readings of 5 values through a window of 10; all bytes and resolutions |
| `TemperatureEarlyRead`, `EWDTNeverReset` | violations | the real numbers |

A small queue, few SMSs and one or two initialisation commands are enough because the
code treats all messages, SMSs and initialisation commands alike; counters
that only delay something (`ResetWait`, `ResetSmsDelay`, `ReceiveTimeout`) are
set low, so that what they delay falls between all other steps.

### Fairness

`FairSpec` of `GsmLogic`: `loop()` polls the UART and works off notifications
for ever, the 1 s handler runs again and again, the watchdog is hardware, and
the modem writes what it has to write (weak fairness each).  The 100 ms handler
gets strong fairness: a time-out that stays armed does elapse, although the
handler that checks it is only enabled between two other steps of `loop()`.
Nothing obliges the network to deliver or the modem to be free of faults.
`QueueDrains` asks for a queue that is empty again and again, or a
modem that fails again and again (`ModemFails`: an answer not written in full,
or a time-out before it has come).  A modem that for ever answers later than
the time-outs counts as failing, so `QueueDrains` does not speak of it; and its
run has no ring, one SMS and one expiry.  The safety properties of that run
are proved for any number of them and for all faults (section 4).
`MainLoop` and `DS18x20` assume that the ticker (hardware) and `loop()` (called
for ever by the Arduino core) keep running, and `MainLoop` that the task
watchdog restarts a hung program: weak fairness, since none of these is ever
disabled by another for good.  In `circular_queue_mp` nobody has to call
anything; a call that has begun goes on (weak fairness, the scheduler), and the
mutex, which is free again and again, is had in the end (strong fairness).

### Disagreements found

* **Stray OK** (`GsmStrayReply`): hanging up (`ATH`) waits for nothing, so its
  OK is taken for the answer to the next command, whose own answer then comes
  when none is expected.  `GsmCommands.ino:241` takes
  "idle" to mean that no answer is expected.
* **Close circuit at power-up** (`DoorAtPowerUp`): `DoorControl.ino:27` writes
  the active-low pin a second time, LOW, instead of the active-high one.
* **External watchdog** (`EWDTNeverReset`): the handler called every 10 ms
  zeroes the second counter each 510 ms, so the pin never goes HIGH.
* **Early reading** (`TemperatureEarlyRead`): sending an SMS (500 ms) between
  two readings leaves 490 ms of the 750 ms a conversion takes.
* **Old signal strength** (`GsmSignalNeverExpires`): `GsmLogic.ino:556` tests
  `!SignalStrengthAcquired` where the line for the credit tests
  `OperatorsCreditAcquired`.  A signal strength, once acquired, is never asked
  for again.
* **Lapped ring** (`CircularQueueOverrun`): `circular_queue_mp::for_each_requeue`
  on a full queue moves `m_inPos` onto `m_outPos` (line 188) before it releases
  the slot (line 195).  A push in between is accepted, although push returns
  false "if the queue was full" (line 79), and then the queue looks empty: all
  of it is lost.  The sketch does not use this class.

One more is only noted, since the program does not come near it: `peekPrevious`
on a LIFO that has overwritten is not what `peek` returns, as `cppQueue.h:185`
says; the program's queue is a FIFO.

### What "confirmed" means

The program cannot tell whose +CMGS it reads.  `LeavesQueueWhenConfirmed` and
`SmsService` therefore speak of a confirmation that the parser of the send
command finds while a message is in flight.  If it belongs to an earlier
attempt and came after its time-out, it confirms the message in flight just the
same: no property here excludes that (the hazard at `GsmCommands.ino:337` is
shown by `GsmStrayReply` alone).

## 4. Proofs

All theorems hold for every value of the constants that satisfies the modules'
named assumptions.

* `GsmTextProofs`: lemmas about searching and cutting text (where `Find`
  points, that `FindSms` returns the body of the first header, that cutting
  leaves the rest of the text in order).
* `GsmLogicProofs`:
  * `TypeCorrect`: `TypeOK` is inductive by itself.  It carries more than
    types: the queue is never longer than `QueueSize`, the parser is one of
    five.
  * `ParserAlwaysMatchesState`: inductive with `TypeOK`.  The argument is that
    every action that moves the state machine into or out of a waiting state
    moves the parser with it, the time-out of the 100 ms handler included.
  * `InFlightAlwaysHead`: from the two above.  While the confirmation is
    awaited the parser is `SendSms`, so no other command is sent; pushes only
    append; hence the head stays.
  * `LeavesOnlyWhenConfirmed`: an action property from the same invariants.
* `GsmSmsProofs`, about the way of an SMS from the UART to the door.  The
  received text and the UART are read as one sequence (`TextAt`), so that
  reading from the UART changes nothing, and every step either drops pieces at
  its front (`Drops`) or adds some at its end (`Adds`).
  * `DoorOnlyOnOrder` and `HandledOnceInOrder` rest on the invariant `SmsInv`:
    every header in that text has its body behind it, its number is greater
    than those before it and than the last one handled, and if it and its body
    order the door it is in `orders`; what the modem still owes holds no
    header.  Without the first part an SMS could be joined with the body of
    another, whose sender may not open the door.
  * `ForgetsOnlyDeleted` rests on `FlowInv`: from the sending of `AT+CMGD` to
    its report the notifications are entered only on a time-out, whose report
    does not clear "SMS received", so nothing is handled in between.
  * `MissedOnlyAsExplained` needs both: what a step loses stood among the
    pieces it dropped, and each step that drops any is one of those named.
  * `ServiceIsKept`, the refinement of `SmsService`, needs all the invariants
    above, and is proved by comparing each handler with the service's steps
    (`StepServes`).  A handled SMS is a new one because of `SmsInv`; a failure
    never meets a confirmed message because of `FlowInv` (the failure of a
    parser that has found the confirmation is not reported any more); and what
    leaves is what was given because of `InFlightIsHead`.
  * `AnswersKeepOrder` follows from the service: whatever it does, an answer
    that is added is to an SMS newer than all the others'.
* `MainLoopProofs`:
  * `TypeCorrect`.
  * `PulsesAreLongEnough`: the strengthening (`TickBudget`) says that the pulse
    counter never exceeds `held`, the ticks since the last order and since the
    circuit was driven for it, counting one more while a tick is raised and
    its handler has not run; and that nothing has been counted while circuit
    calls are pending.  Merging ticks only makes the counter smaller.
  * `CircuitsExclude`, `CircuitsAlwaysFollowState`: the strengthening states,
    for every state and every list of circuit calls still to be made, which
    outputs are released, so that the order of the calls in `DoorControl_Open`
    and `DoorControl_Close` is what the proof uses.
  * `ButtonsKeepPromise`, the refinement of `DoorOpener`, rests on both: a
    circuit call presses a button only when the other is let go, and lets go
    of none that is wanted; `held` is long enough when a pulse finishes.
* `cppQueueProofs`:
  * `TypeCorrect` and `RingKeepsPromise`, the refinement of `BoundedQueue`, for
    every capacity and kind of queue.  The inductive invariant (`QueueInv`) is
    `TypeOK`, that the `cnt` slots before `in` hold records
    (`WrittenRecords`), and where the other end is (`EndOfQueue`): `out` is
    `in` less `cnt`, wrapped, for a FIFO; a LIFO starts at slot 0 unless it
    has overwritten, and then every slot holds a record.  Remainders are
    replaced by a case distinction first (`Wraps`), after which each call is
    compared with the abstract one element by element.

* `DS18x20Proofs`.  `SecondAssumption` says that no delay lasts longer than a
  second and that a conversion is finished two 100 ms periods before a second
  is over: the delays of the program are 500 and 1000 ms, a conversion
  takes 750 ms.
  * `TypeCorrect` needs neither.
  * `AlwaysInTime` is the inductive invariant.  It measures time by the ticks
    since the 1 s flag was last due (`Phase`).  A flag stays raised until its
    handlers have run or are about to (`FlagsHandled`); the 1 s handler runs at
    the start of the second, or as late in it as a delay has put it off, and
    that is less than a second (`Punctual`), so that two seconds are never
    merged into one; and the sensors' countdowns follow the seconds
    (`SensorInv`).
  * `ShownAlwaysRecent`: the countdown of the filtered value goes down once in
    every second (`CountsSeconds`), so a value that is still shown is no older
    than the countdown allows.
  * `ConversionsAreFinished`: in an undisturbed second the conversion is asked
    for within the first two 100 ms periods (`Asked`), and from then on its age
    keeps up with the second (`Converting`).
  * `TemperatureAlwaysRead`, for all bytes and resolutions: the code clears the
    low bits of a signed number, the data sheet adds up the bits that are
    defined.  The bits below bit `i` add up to the remainder by `2^i`
    (`BitAdds`, `BelowIsRemainder`), and that remainder does not depend on the
    sign (`LowBits`).
* `circular_queueProofs` and `circular_queueRefines`, about both lock-free
  rings, for every capacity a `uint16_t` admits (`CapacityAssumption`), every
  set of producers and all interleavings of their loads and stores.
  * `TypeCorrect` holds in any case; `ThreadsApart` and `PromiseKept` until a
    push is accepted on a lapped ring, and `PromiseKeptAlone` for good: the
    class `circular_queue` has no `for_each_requeue`, so its ring is never
    lapped (`NeverOverrunAlone`).  None of them assumes anything of the clients.
  * `ThreadsApart`: `QInv` is inductive but for the step that overruns.  Calls of producers do not overlap
    (`Apart`: one producer, or the mutex); the `m_inPos` a producer has loaded
    is still the queue's, and the slots it found free are still free, since
    the consumer only makes room (`ProducerInv`); what the consumer has found
    is still in the queue, since producers only add (`TakeInv`, `FlushInv`),
    also while it puts elements back (`RequeueInv`, `RevInv`).
  * `PromiseKept`, the refinement of `FifoChannel`: `Contents` is described
    element by element (`ContentsAre`), and then each access is compared with
    the abstract queue.  A call takes effect where it stores the position
    (`push_store`, `take_store`, `flush_store`) or where it loads one that
    tells it that there is nothing to do; the other accesses change nothing
    that the abstract queue shows.  The invariants above are what
    makes the slots between the two positions the same at the load and at the
    store.

Only model-checked: all liveness (`AlwaysIdleAgain`, `QueueDrains`,
`EveryTickHandled`, `PulseEnds`, `LedBlinks`, `ShownWhilePlugged`,
`ExpiresWhenUnplugged`, `ConsumerReturnsAlways`), which TLAPS does not reach
with fairness; and `FilterFollowsReadings`, which compares two folds over a
sequence of readings: an induction over data.

## 5. Not modelled

The wording of SMSs and logs; the dates of SMSs (parsed, never used); the
rounding of the filter's doubles, and its getters; the door sensor (it only
feeds a report); a failed `malloc` of the queue; code that nothing calls
(`GsmCommands.ino` 259-271, 349-515, 835-902, `Signal_LED_CommsLost` and
`Signal_LED_CommsActive`, `eepromDataStructs.h`); builds for other boards.

Of `circular_queue/`: `Delegate.h` (wrappers of function pointers, one overload
per kind of callable) and `MultiDelegate.h` (a list of them), which nothing
includes; of the queues, what no compiler can instantiate (`capacity(n)`,
`pop_requeue`, the moves).

## 6. Plan

Done: the system's own core, the LED, the arithmetic of filter and sensor, the
lock-free queues, four abstract specifications (`SmsService`, `DoorOpener`,
`BoundedQueue`, `FifoChannel`) and the proofs that the detailed ones implement
them, and proofs of the safety properties.  Left:

1. The filter's arithmetic for any number of readings.
2. The outgoing queue of `GsmLogic` as an instance of `BoundedQueue`: `Push`
   and `Tail` are that queue's push and drop by definition, so little would be
   learnt from it.
