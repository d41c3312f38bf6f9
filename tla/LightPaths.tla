----------------------------- MODULE LightPaths -----------------------------
(***************************************************************************)
(* What main() wires: the eight MEMS switches, their pins on the expander, *)
(* and the routes of the router.  The two instrument arms, yj and hk, are  *)
(* wired alike.  "yj_1430" -> "yj_fei" is defined twice, both times so.    *)
(***************************************************************************)
EXTENDS Integers, Sequences

Arms  == {"yj", "hk"}
Kinds == <<"cal_laser", "ao_fei", "forward_retro", "mm_sm">>
AB    == {"A", "B"}

\* A switch is named by its arm and its kind.
named_switches == Arms \X {Kinds[i] : i \in DOMAIN Kinds}

\* MEMSSwitch(pcagpio, 2 * n, 2 * n + 1) for the n-th switch, the arms in turn.
PinOf(sw, side) ==
    4 * ((CHOOSE i \in DOMAIN Kinds : Kinds[i] = sw[2]) - 1)
        + (IF sw[1] = "yj" THEN 0 ELSE 2) + (IF side = "A" THEN 0 ELSE 1)

Inputs == {"1430", "cal", "laser"}

\* The routes: from an input of an arm to its ao or fei output, or to its photodiode.
RouteNames == (Arms \X Inputs \X {"ao", "fei"}) \union (Arms \X {"mm", "sm"} \X {"pd"})

Sets(kind, side) == <<kind, side>>

Toward(output) == Sets("ao_fei", IF output = "ao" THEN "A" ELSE "B")

PathTo(input, output) ==
    CASE input = "1430"  -> <<Sets("cal_laser", "B"), Sets("forward_retro", "A"), Toward(output)>>
      [] input = "cal"   -> <<Sets("cal_laser", "A"), Toward(output)>>
      [] input = "laser" -> <<Sets("cal_laser", "B"), Toward(output)>>
      [] input = "mm"    -> <<Sets("mm_sm", "A")>>
      [] input = "sm"    -> <<Sets("mm_sm", "B")>>

\* router.defineRoute(): the switches of a route in order, each with its state.
RouteTable ==
    [r \in RouteNames |->
        LET path == PathTo(r[2], r[3])
        IN  [i \in DOMAIN path |-> [sw |-> <<r[1], path[i][1]>>, state |-> path[i][2]]]]

\* MEMSRouter::route() when no transfer fails: each switch of the route moves.
Routed(r, pos) ==
    [sw \in named_switches |->
        IF sw[1] = r[1] /\ \E i \in DOMAIN RouteTable[r] : RouteTable[r][i].sw = sw
          THEN CHOOSE s \in AB :
                   \E i \in DOMAIN RouteTable[r] : RouteTable[r][i] = [sw |-> sw, state |-> s]
          ELSE pos[sw]]

InPlace(r, pos) == \A i \in DOMAIN RouteTable[r] : pos[RouteTable[r][i].sw] = RouteTable[r][i].state

----------------------------------------------------------------------------

\* No two coils share a pin of the expander.
PinsApart ==
    \A sw, tw \in named_switches : \A s, t \in AB :
        PinOf(sw, s) \in 0 .. 15 /\ (PinOf(sw, s) = PinOf(tw, t) => sw = tw /\ s = t)

\* A route puts itself in place, and routes of the other arm leave it there.
ArmsApart ==
    \A pos \in [named_switches -> AB] : \A r, t \in RouteNames :
        /\ InPlace(r, Routed(r, pos))
        /\ r[1] # t[1] /\ InPlace(r, pos) => InPlace(r, Routed(t, pos))

\* An output sees the calibration light or the science light, never both; light of
\* the 1430 laser reaches it only where the laser route is in place too.
OneSource ==
    \A pos \in [named_switches -> AB] : \A arm \in Arms, o, p \in {"ao", "fei"} :
        /\ ~(InPlace(<<arm, "cal", o>>, pos) /\ InPlace(<<arm, "laser", p>>, pos))
        /\ InPlace(<<arm, "1430", o>>, pos) => InPlace(<<arm, "laser", o>>, pos)
=============================================================================
