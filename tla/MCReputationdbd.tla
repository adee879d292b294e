--------------------------- MODULE MCReputationdbd ---------------------------
EXTENDS Reputationdbd, TLC

CONSTANTS H1, H2

A(host, form) == [host |-> host, form |-> form]

\* Both addresses in two forms, in both orders; one that is no address; none at
\* all; more than maxBatchSize.
MCBatches ==
  {<<A(H1, "mapped"), A(H2, "plain"), A(H1, "plain"), A(H2, "mapped")>>,
   <<A(H2, "plain"), A(H1, "junk")>>,
   << >>,
   <<A(H1, "plain"), A(H1, "plain"), A(H2, "plain"), A(H1, "plain"), A(H1, "plain")>>}

\* The second publication lists one host more and takes the other off.
MCContents == <<H1 :> {"vpn"} @@ H2 :> {}, H1 :> {} @@ H2 :> {"tor"}>>
=============================================================================
