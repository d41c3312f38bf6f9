------------------------------ MODULE Devices ------------------------------
(***************************************************************************)
(* executor_task and what its handlers drive: the MEMS switches behind the *)
(* PCAL6416A expander, the attenuators behind the DAC7578, both on i2c1,   *)
(* and the Maiman laser drivers on the RS-485 line.                        *)
(*                                                                         *)
(* One transfer on a bus is one step.  A transfer may fail, the processor  *)
(* may restart while the chips keep their state, an answer of a laser may  *)
(* be lost or come after the call that waits for it has given up.          *)
(***************************************************************************)
EXTENDS Integers, Sequences, SequencesExt

CONSTANTS
    Switches,   \* names of the MEMS switches (8 in main.cpp)
    Routes,     \* the routes main() defines, each a path <<[sw, state], ...>>
    Lasers,     \* slave ids of the laser drivers (0 .. 5)
    Channels,   \* attenuators, by DAC channel (0 .. 5)
    RawMax,     \* largest value of a laser's 16-bit register
    Volts,      \* values asked of an attenuator, in thousandths
    MaxLate,    \* bound: answers of the lasers on their way
    NoArg,      \* no argument
    KnowsSet    \* string_to_msgtype() knows "set"; FALSE in the code

\* The lasers are named by their Modbus addresses; 0 addresses all of them.
Broadcast == 0
Sides     == {"A", "B"}
Raw       == 0 .. RawMax
Pins      == Switches \X Sides

ASSUME DevicesAssumption ==
    /\ IsFiniteSet(Switches) /\ Lasers \subseteq Nat /\ RawMax \in Nat /\ MaxLate \in Nat \ {0}
    /\ Volts \subseteq Int /\ KnowsSet \in BOOLEAN
    /\ \A r \in DOMAIN Routes : Routes[r] \in Seq([sw : Switches, state : Sides])

\* A command as the peer writes it; NoArg is an argument that is missing or of
\* no use to the handler.
Ids(key) ==
    CASE key = "laser"       -> Lasers
      [] key = "atten"       -> Channels
      [] key = "mems.switch" -> Switches \union {NoArg}
      [] key = "mems.route"  -> DOMAIN Routes \union {NoArg}
      [] OTHER               -> {NoArg}
Args(key) ==
    CASE key = "laser"       -> 0 .. RawMax + 1 \union {NoArg}
      [] key = "atten"       -> Volts \union {NoArg}
      [] key = "mems.switch" -> Sides \union {NoArg}
      [] OTHER               -> {NoArg}

Keys          == {"laser", "atten", "mems.switch", "mems.route", "other"}
Commands(key) == [word : {"get", "set"}, key : {key}, id : Ids(key), arg : Args(key)]
NoCommand     == [word |-> "", key |-> "", id |-> NoArg, arg |-> NoArg]

Says(kind)    == [kind |-> kind, value |-> 0]
Reports(v)    == [kind |-> "value", value |-> v]

VARIABLES
    dpc,         \* executor: "boot", "idle", "handle", "i2c", "wait"
    command, handler,   \* the command in hand, and which of its handlers runs
    todo,        \* transfers left to do on i2c1
    answer,      \* the last reply the executor made, "none" while it works
    state,       \* MEMSSwitch::_state
    out, inputs, \* expander: pins whose output bit is set, pins not made outputs
    position,    \* where each switch stands
    dac,         \* DAC code of each attenuator
    dest,        \* modbus_->dest_address_rtu
    level,       \* REG_CURRENT of each laser
    late,        \* answers of the lasers, oldest first, not read yet
    poor,        \* history: pins whose last pulse or set-up had a failed transfer
    had          \* history: levels each laser has had

expander == <<out, inputs, position, poor>>
lasers   == <<dest, level, late, had>>
devVars  == <<dpc, command, handler, todo, answer, state, expander, dac, lasers>>

----------------------------------------------------------------------------
(* The expander and the switches.                                          *)

Op(kind, p) == [kind |-> kind, pin |-> p]

\* MEMSSwitch::MEMSSwitch and MEMSSwitch::pulse ignore what writePin() answers.
SetUp(sw) == <<Op("mode", <<sw, "A">>), Op("mode", <<sw, "B">>),
               Op("low", <<sw, "A">>), Op("low", <<sw, "B">>)>>

\* Mutant: the coil is not released.
pulse_NoRelease(p) == <<Op("low", p), Op("high", p)>>

pulse(p) == <<Op("low", p), Op("high", p), Op("release", p)>>

\* Mutant: both states are set by the coil of A.
setState_OneCoil(sw, s) == Append(pulse(<<sw, "A">>), Op("state", <<sw, s>>))

\* setStateA(), setStateB().
setState(sw, s) == Append(pulse(<<sw, s>>), Op("state", <<sw, s>>))

Constructors == FlattenSeq([i \in DOMAIN SetToSeq(Switches) |-> SetUp(SetToSeq(Switches)[i])])
route(r)     == FlattenSeq([i \in DOMAIN Routes[r] |-> setState(Routes[r][i].sw, Routes[r][i].state)])

Driven(sw, o, in) == {s \in Sides : <<sw, s>> \in o /\ <<sw, s>> \notin in}

\* A switch goes where its one driven coil pulls it; two coils may leave it
\* anywhere, none leaves it alone.
Settles(pos, o, in) ==
    {p \in [Switches -> Sides] :
        \A sw \in Switches :
            LET d == Driven(sw, o, in)
            IN  (d = {} => p[sw] = pos[sw]) /\ (d # {} => p[sw] \in d)}

\* readRegister() then writeRegister(): the other bits are written back as read.
Registers(op) ==
    CASE op.kind = "mode" -> [out |-> out, inputs |-> inputs \ {op.pin}]
      [] op.kind = "high" -> [out |-> out \union {op.pin}, inputs |-> inputs]
      [] OTHER            -> [out |-> out \ {op.pin}, inputs |-> inputs]

\* A write that is reported as failed may have reached the register.
Transfer(op, ok, reached) ==
    /\ ok => reached
    /\ LET r == IF reached THEN Registers(op) ELSE [out |-> out, inputs |-> inputs]
       IN  out' = r.out /\ inputs' = r.inputs
    /\ position' \in Settles(position, out', inputs')
    /\ poor' = IF ~ok THEN poor \union {op.pin}
               ELSE IF op.kind = "low" THEN poor \ {op.pin} ELSE poor

\* One transfer of the pulses under way; setStateA() and setStateB() record the
\* state whatever became of the transfers.
SwitchStep ==
    /\ dpc \in {"boot", "i2c"} /\ todo # << >>
    /\ todo' = Tail(todo)
    /\ LET op == Head(todo) IN
         IF op.kind = "state"
           THEN state' = [state EXCEPT ![op.pin[1]] = op.pin[2]] /\ UNCHANGED expander
           ELSE /\ \E ok, reached \in BOOLEAN : Transfer(op, ok, reached)
                /\ UNCHANGED state
    /\ UNCHANGED <<dpc, command, handler, answer, dac, lasers>>

----------------------------------------------------------------------------
(* executor_task.                                                          *)

Done(reply) ==
    /\ dpc' = "idle" /\ answer' = reply
    /\ command' = NoCommand /\ handler' = "none"

\* All transfers done: main() goes on to start the tasks, the handler answers.
SwitchesDone ==
    /\ dpc \in {"boot", "i2c"} /\ todo = << >>
    /\ Done(Says(IF dpc = "boot" THEN "none" ELSE "ok"))
    /\ UNCHANGED <<todo, state, expander, dac, lasers>>

\* string_to_msgtype(), as far as the executor can tell.
MsgType(word) == IF word = "set" /\ KnowsSet THEN "SET" ELSE "INVALID"

HandlerOf(c) == IF MsgType(c.word) = "SET" THEN "set" ELSE "get"

Receive(c) ==
    /\ dpc = "idle"
    /\ command' = c /\ handler' = HandlerOf(c)
    /\ dpc' = "handle" /\ answer' = Says("none")
    /\ UNCHANGED <<todo, state, expander, dac, lasers>>

\* Keys that are not in dispatch_table, and what a handler returns an error for
\* before it does anything.
Refused(c) ==
    \/ c.key = "other"
    \/ c.key = "mems.switch" /\ c.id = NoArg
    \/ c.key = "mems.route" /\ c.id = NoArg /\ handler = "set"
    \/ c.key \in {"mems.switch", "laser", "atten"} /\ c.arg = NoArg /\ handler = "set"

Refuse ==
    /\ dpc = "handle" /\ Refused(command)
    /\ Done(Says("error"))
    /\ UNCHANGED <<todo, state, expander, dac, lasers>>

Serves(key, h) == dpc = "handle" /\ ~Refused(command) /\ command.key = key /\ handler = h

\* activeRoutes() lists every route whose switches exist, wherever they stand.
GetRoutes ==
    /\ Serves("mems.route", "get")
    /\ Done(Says("routes"))
    /\ UNCHANGED <<todo, state, expander, dac, lasers>>

GetSwitch ==
    /\ Serves("mems.switch", "get")
    /\ Done(Says(state[command.id]))
    /\ UNCHANGED <<todo, state, expander, dac, lasers>>

SetSwitches ==
    /\ Serves("mems.switch", "set") \/ Serves("mems.route", "set")
    /\ todo' = IF command.key = "mems.route" THEN route(command.id)
               ELSE setState(command.id, command.arg)
    /\ dpc' = "i2c"
    /\ UNCHANGED <<command, handler, answer, state, expander, dac, lasers>>

----------------------------------------------------------------------------
(* The attenuators.                                                        *)

FullScale == 4096
DacCodes  == 0 .. 4095   \* twelve bits

Clamp(v) == IF v < 0 THEN 0 ELSE IF v > FullScale THEN FullScale ELSE v

\* Attenuator::set() and commandWrite(): the code, shifted to the left of a
\* uint16_t; the chip uses the upper twelve bits.
Code(v) == ((((Clamp(v) * 4095) \div FullScale) * 16) % 65536) \div 16

SetAttenuator ==
    /\ Serves("atten", "set")
    /\ \E ok, reached \in BOOLEAN :
           /\ ok => reached
           /\ dac' = IF reached THEN [dac EXCEPT ![command.id] = Code(command.arg)] ELSE dac
           /\ Done(Says(IF ok THEN "ok" ELSE "error"))
    /\ UNCHANGED <<todo, state, expander, lasers>>

\* Attenuator::get() reads the channel, then divides the 0 it was given by 5.
GetAttenuator ==
    /\ Serves("atten", "get")
    /\ \E ok \in BOOLEAN : Done(IF ok THEN Reports(0) ELSE Says("error"))
    /\ UNCHANGED <<todo, state, expander, dac, lasers>>

----------------------------------------------------------------------------
(* The lasers.  nanomodbus is not part of the repository: it writes the    *)
(* request, reads one answer with read_serial(), and refuses an answer of  *)
(* another unit, function or value.                                        *)

\* setCurrent() casts a float to uint16_t: a value out of range becomes any.
Cast(v) == IF v \in Raw THEN {v} ELSE Raw

\* Mutant: the destination is the one used last.
Addressed_Last(l) == dest

Addressed(l) == l

\* readU16(), writeU16(): every laser that is addressed and hears the request
\* carries it out; one that is addressed by its own id answers, if there is room
\* on the line.  A write to all is not answered and counts as done.
Ask ==
    /\ dpc = "handle" /\ ~Refused(command) /\ command.key = "laser"
    /\ dest' = Addressed(command.id)
    /\ \E v \in (IF handler = "set" THEN Cast(command.arg) ELSE {0}), heard \in BOOLEAN :
         LET hears(l) == heard /\ dest' \in {l, Broadcast}
             write    == handler = "set"
         IN  /\ level' = [l \in Lasers |-> IF write /\ hears(l) THEN v ELSE level[l]]
             /\ had' = [l \in Lasers |-> had[l] \union {level'[l]}]
             /\ late' = IF heard /\ dest' # Broadcast /\ Len(late) < MaxLate
                          THEN Append(late, [unit |-> dest', fc |-> handler,
                                             value |-> level'[dest']])
                          ELSE late
             /\ IF write /\ dest' = Broadcast
                  THEN Done(Says("ok"))
                  ELSE /\ dpc' = "wait" /\ UNCHANGED <<handler, answer>>
                       /\ command' = IF write THEN [command EXCEPT !.arg = v] ELSE command
    /\ UNCHANGED <<todo, state, expander, dac>>

\* Mutant: an answer of any unit is taken.
Accepts_AnyUnit(m) == m.fc = handler

Accepts(m) == m.unit = dest /\ m.fc = handler /\ (m.fc = "set" => m.value = command.arg)

\* read_serial() returns the oldest answer received, one to an earlier request
\* included: the flush of nanomodbus reads with a timeout of 0, and read_serial()
\* then reads nothing.
Answered ==
    /\ dpc = "wait" /\ late # << >>
    /\ late' = Tail(late)
    /\ LET m == Head(late) IN
         Done(IF ~Accepts(m) THEN Says("error")
              ELSE IF m.fc = "set" THEN Says("ok") ELSE Reports(m.value))
    /\ UNCHANGED <<todo, state, expander, dac, dest, level, had>>

\* Nothing for 1000 ms: the answer is lost, or late.
TimedOut ==
    /\ dpc = "wait"
    /\ Done(Says("error"))
    /\ UNCHANGED <<todo, state, expander, dac, lasers>>

\* An answer does not survive the line.
AnswerLost ==
    /\ late # << >>
    /\ late' = Tail(late)
    /\ UNCHANGED <<dpc, command, handler, todo, answer, state, expander, dac, dest, level, had>>

----------------------------------------------------------------------------
(* Power-up: the expander's pins are inputs, its output bits set.          *)

DevInit ==
    /\ dpc = "boot" /\ command = NoCommand /\ handler = "none" /\ answer = Says("none")
    /\ todo = Constructors
    /\ state = [sw \in Switches |-> "U"]
    /\ out = Pins /\ inputs = Pins
    /\ position \in [Switches -> Sides]
    /\ dac = [ch \in Channels |-> 0]
    /\ dest = 1 /\ late = << >>
    /\ level = [l \in Lasers |-> 0] /\ had = [l \in Lasers |-> {0}]
    /\ poor = {}

\* The processor restarts; the chips and the lasers stay as they are.
Restart ==
    /\ dpc # "boot"
    /\ dpc' = "boot" /\ command' = NoCommand /\ handler' = "none" /\ answer' = Says("none")
    /\ todo' = Constructors
    /\ state' = [sw \in Switches |-> "U"]
    /\ dest' = 1 /\ late' \in {<< >>, late}
    /\ UNCHANGED <<expander, dac, level, had>>

Executor ==
    \/ SwitchStep \/ SwitchesDone
    \/ Refuse \/ GetRoutes \/ GetSwitch \/ SetSwitches
    \/ SetAttenuator \/ GetAttenuator
    \/ Ask \/ Answered \/ TimedOut

DevNext ==
    \/ \E key \in Keys : \E c \in Commands(key) : Receive(c)
    \/ Executor
    \/ AnswerLost
    \/ Restart

DevSpec == DevInit /\ [][DevNext]_devVars

----------------------------------------------------------------------------
(* Properties.                                                             *)

DevTypeOK ==
    /\ dpc \in {"boot", "idle", "handle", "i2c", "wait"}
    /\ command = NoCommand \/ (command.key \in Keys /\ command \in Commands(command.key))
    /\ handler \in {"none", "get", "set"}
    /\ todo \in Seq([kind : {"mode", "low", "high", "release", "state"}, pin : Pins])
    /\ answer \in [kind : {"none", "error", "ok", "routes", "U", "A", "B", "value"}, value : Raw]
    /\ state \in [Switches -> Sides \union {"U"}] /\ position \in [Switches -> Sides]
    /\ out \subseteq Pins /\ inputs \subseteq Pins /\ poor \subseteq Pins
    /\ dac \in [Channels -> DacCodes]
    /\ dest \in Lasers \union {1} /\ level \in [Lasers -> Raw] /\ had \in [Lasers -> SUBSET Raw]
    /\ late \in Seq([unit : Lasers, fc : {"get", "set"}, value : Raw]) /\ Len(late) <= MaxLate

AtRest == dpc = "idle"

\* Between commands a coil is driven only if a transfer of its own pin failed in
\* the last pulse or set-up of that pin: neither a restart in the middle of a
\* pulse nor the pulses of other switches leave one on.
CoilsReleased == AtRest => out \subseteq poor

\* The state a switch reports is where it stands, if no transfer of its last
\* pulse failed and neither of its pins has been left on or never made an output.
\* (A pin left on by an earlier failure undoes a later command for the other side.)
StateIsPosition ==
    \A sw \in Switches :
        ( /\ AtRest /\ state[sw] # "U"
          /\ <<sw, state[sw]>> \notin poor
          /\ \A s \in Sides : <<sw, s>> \notin out \union inputs )
        => position[sw] = state[sw]

\* The level reported for a laser is one this laser has had: neither the answer
\* of another laser nor the echo of a write is taken for it.  It need not be the
\* present one: a late answer is read by the next request.
LevelFromItsLaser ==
    [][ dpc = "wait" /\ answer'.kind = "value" => answer'.value \in had[command.id] ]_devVars

\* A command to a laser changes no other, but for the first: its address is the
\* broadcast address, and the level it is given is given to all.
LasersApart ==
    [][ \A l \in Lasers : level'[l] # level[l] => command.id \in {l, Broadcast} ]_devVars

----------------------------------------------------------------------------
(* What dispatch_table and MsgType promise, and the code does not.         *)

\* A command whose type is "set" is carried out by the set handler of its key.
SetIsDispatched == dpc = "handle" /\ command.word = "set" => handler = "set"
=============================================================================
