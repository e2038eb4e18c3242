------------------------ MODULE MCLogManagerFactory ------------------------
(* Small instances of LogManagerFactory for TLC. *)
EXTENDS LogManagerFactory, TLC

CONSTANTS host, guest, other, named, lone, twin, t1, t2, json, i1, i2, i3, i4

\* Two hosts, a guest of any host, a module named through LogManagerProvider, a module with an
\* instance of its own and one of the same name; two tokens with the same hash code and a JSON
\* configuration of a guest.
MCName == (host :> 3) @@ (guest :> 2) @@ (other :> 1) @@ (named :> 4) @@ (lone :> 5) @@ (twin :> 5)
          @@ (t1 :> NoName) @@ (t2 :> NoName) @@ (json :> 6)
MCHost == (host :> 3) @@ (guest :> AnyHost) @@ (other :> 1) @@ (named :> AnyHost)
          @@ (lone :> NoHost) @@ (twin :> NoHost) @@ (t1 :> AnyHost) @@ (t2 :> AnyHost) @@ (json :> 3)
MCHash == (t1 :> 1) @@ (t2 :> 1) @@ (json :> 2)
MCApi == (named :> "id") @@ [m \in {host, guest, other, lone, twin} |-> "base"]

\* Modules only, each with a name of its own or not; C clients among modules, as guests of any host and of one that may be missing.
AllApplications == {{host, other, guest, named, lone}, {host, other, guest, t1},
                    {host, guest, lone, twin},
                    {host, named, lone, t1, json}, {other, t1, t2, json}}
Symm == Permutations(Instances)
=============================================================================
