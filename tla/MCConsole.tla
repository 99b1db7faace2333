------------------------------- MODULE MCConsole -------------------------------
(***************************************************************************)
(* Two meters, of which the contract may know only one, and an open market *)
(* when the page is opened; or no meter at all.                            *)
(***************************************************************************)
EXTENDS ConsoleProps

CONSTANTS ana, ben

TwoMeters == <<1, 2>>

OneSurplus == {<<1, -1>>}

OneOrBoth == {{1}, {1, 2}}

NoMeters == <<>>

NoneKnown == {{}}

NoPositions == {<<>>}

(* A whole tariff, and one whose fee is refused once its price is set. *)
TwoPatches ==
  {[price |-> 2, fee_bps |-> 1000], [price |-> 3, fee_bps |-> 10001]}

=============================================================================
