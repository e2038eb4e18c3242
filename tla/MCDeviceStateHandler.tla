------------------------ MODULE MCDeviceStateHandler ------------------------
(* Two policy managers and one built-in profile. The application may load   *)
(* a custom profile, one whose rules leave a network out, one that has no   *)
(* rules, which only a JSON text may say, or too many.                      *)
EXTENDS DeviceStateHandler, TLC

CONSTANTS m1, m2, Metered, Unmetered, Charging

Rule(net, pow, t) == [net |-> net, pow |-> pow, timers |-> t]

MCDefaults == [n \in {"REAL_TIME"} |-> <<Rule(Metered, AnyState, <<2, 2, 2>>), Rule(AnyState, AnyState, <<4, 2, 1>>)>>]

Custom == <<Rule(Unmetered, Charging, <<3, 2, 1>>), Rule(Metered, AnyState, <<-1, -1, -1>>)>>

\* No rule of this profile is for an unmetered network.
MeteredOnly == <<Rule(Metered, Charging, <<2, 1, 1>>), Rule(Metered, AnyState, <<5, 5, 5>>)>>

MCLists ==
    {[n \in {"custom"} |-> Custom], [n \in {"custom"} |-> MeteredOnly], [n \in {"custom"} |-> <<>>],
     [n \in {"REAL_TIME", "custom"} |-> Custom]}

Symm == Permutations(Managers)
=============================================================================
