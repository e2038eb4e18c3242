-------------------- MODULE MCTransmissionPolicyManager --------------------
(* Small instances of TransmissionPolicyManager for TLC. *)
EXTENDS TransmissionPolicyManager, TLC

CONSTANTS e1, e2, e3, a1, a2, a3, a4, c1, c2, c3, c4

\* Two that the pending uploads hold back and one that goes past them.
MCLatencyR == (e1 :> EventLatency_RealTime) @@ (e2 :> EventLatency_RealTime) @@ (e3 :> EventLatency_Max)
\* One deferred event.
MCLatency1 == e1 :> EventLatency_Normal
\* Two deferred events.
MCLatency2 == (e1 :> EventLatency_Normal) @@ (e2 :> EventLatency_Normal)
\* The default rule (Normal every 4 s, RealTime every 2 s).
DefaultProfile == {<<4, 2>>}
\* A rule with equal timers: every upload asks for Normal events, and stops if there are none.
EqualProfile == {<<2, 2>>}
\* Rules that disable Normal events, with and without RealTime.
NoNormalProfiles == {<<-1, 2>>, <<-1, -1>>}
\* A rule that disables all but Max events.
OnlyMaxProfile == {<<-1, -1>>}

Symm == Permutations(Tasks)
=============================================================================
