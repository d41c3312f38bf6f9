------------------------------ MODULE MCBoard ------------------------------
(***************************************************************************)
(* The parts of the tib-pico2 firmware that share no state: the executor   *)
(* with its devices, the photodiode task with the ADC, the framing of one  *)
(* connection, the copies in command_in.  A behaviour is one of one part;  *)
(* the executor is asked for switches, for lasers or for attenuators.      *)
(***************************************************************************)
EXTENDS Devices, Telemetry, Framer, QueueCopies, LightPaths

\* Two switches of one arm, and the routes of main() that set no other.
SomeSwitches == {<<"yj", "cal_laser">>, <<"yj", "ao_fei">>}
SomeRoutes   == [r \in {"yj"} \X {"cal", "laser"} \X {"ao", "fei"} |-> RouteTable[r]]
DiodeChannel == [yj |-> "Single_0", hk |-> "Single_1"]

\* Two that decode() is made for, one of five parts, one whose JSON does not
\* parse, one with a part that is too long for its size byte.
SomeJson     == {<<1>>, <<0, 1>>}
SomeMessages == {<< << >>, <<2>>, <<1>>, <<1>> >>, << <<3>>, <<1>>, << >>, <<0, 1>> >>,
                 << << >>, <<1>>, << >>, <<1>>, <<1>> >>, << << >>, <<1>>, << >>, <<3>> >>,
                 << << >>, <<1>>, << >>, <<1, 0, 0, 1>> >>}

\* Two keys that fit into a std::string of this size, one that needs the heap, and
\* one that needs a larger block than that.
SomeKeys == {<<"a", "b">>, <<"c">>, <<"a", "c", "b">>, <<"c", "c", "b", "a", "b">>}

CONSTANT MaxPoor      \* bound: pins with a failed transfer at one time

VARIABLE served       \* keys the executor is asked for, or the other part

parts == {{"mems.switch", "mems.route", "other"}, {"laser"}, {"atten"}, {"diode"}, {"frame"},
          {"copies"}}
vars  == <<served, devVars, telVars, frVars, qcVars>>

Init == served \in parts /\ DevInit /\ TelInit /\ FrInit /\ QcInit

\* Transfers to the expander fail only where the switches are asked for.
Executes ==
    /\ DevNext /\ UNCHANGED <<telVars, frVars, qcVars>>
    /\ command' # NoCommand => command'.key \in served
    /\ Cardinality(poor') <= IF "mems.switch" \in served THEN MaxPoor ELSE 0

Next ==
    /\ UNCHANGED served
    /\ \/ served \notin {{"diode"}, {"frame"}, {"copies"}} /\ Executes
       \/ served = {"diode"} /\ TelNext /\ UNCHANGED <<devVars, frVars, qcVars>>
       \/ served = {"frame"} /\ FrNext /\ UNCHANGED <<devVars, telVars, qcVars>>
       \/ served = {"copies"} /\ QcNext /\ UNCHANGED <<devVars, telVars, frVars>>

Spec == Init /\ [][Next]_vars /\ (served = {"diode"} => TelFair)

\* Every variable of the four parts stays in its type; queues, answers under way
\* and buffers keep their capacity.
BoardTypeOK == DevTypeOK /\ TelTypeOK /\ FrTypeOK /\ QcTypeOK
=============================================================================
