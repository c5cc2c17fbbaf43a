------------------------------ MODULE MCNetguard ------------------------------
(***************************************************************************)
(* A public name, the machine's own name, an address that may be reached   *)
(* and one that may not, and a name whose lookups return either, both or   *)
(* nothing.                                                                *)
(***************************************************************************)
EXTENDS Netguard, TLC

CONSTANTS site, localhost, public, loopback, nohost, outside, inside

MCHosts == {site, localhost, public, loopback}
MCAddressOf == public :> outside @@ loopback :> inside
MCAnswers == {<<>>, <<outside>>, <<inside>>, <<outside, inside>>, <<inside, outside>>}
==============================================================================
