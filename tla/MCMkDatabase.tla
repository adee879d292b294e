---------------------------- MODULE MCMkDatabase -----------------------------
(***************************************************************************)
(* Small instances of MkDatabase for TLC: two networks inside another, one *)
(* of them a single address, an IPv6 host that collapses to the other, and *)
(* a reserved address.                                                     *)
(***************************************************************************)
EXTENDS MkDatabase

CONSTANTS wide, net, host, solo, a1, a2, local, datacenter, abuse, vpn, tor

MCPrefix == {wide, net, host, solo}
MCCovers == wide :> {a1, a2, local} @@ net :> {a2} @@ host :> {a2} @@ solo :> {a1}
MCCollapse == wide :> wide @@ net :> net @@ host :> net @@ solo :> solo
MCSelections == {{datacenter}, {tor}, {datacenter, abuse, vpn, tor}}
MCRepoLists == <<vpn, datacenter>>
MCASCategories == <<datacenter, abuse>>

\* What every source publishes before and after a change upstream.
Before == <<1, 1>> :> {host} @@ <<2, 1>> :> {wide} @@ <<3, 1>> :> {wide} @@ <<3, 2>> :> {wide, host}
            @@ <<4, 1>> :> {wide} @@ <<5, 1>> :> {host}
After == <<1, 1>> :> {solo} @@ <<2, 1>> :> {net} @@ <<3, 1>> :> {net} @@ <<3, 2>> :> {}
            @@ <<4, 1>> :> {} @@ <<5, 1>> :> {}
MCUpstreams == {[t \in Time |-> IF t = 0 THEN Before ELSE After]}
Symmetry == Permutations(Builds)
=============================================================================
