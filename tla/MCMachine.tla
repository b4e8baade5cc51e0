----------------------------- MODULE MCMachine -----------------------------
(* Two workers for two calls and the broadcaster.  The calls ask for knobs that *)
(* overlap, on two devices of which one offers only one of the schedulers.      *)
EXTENDS Machine, TLC

CONSTANTS c1, c2, d1, d2

MCCall == {c1, c2}
MCDevice == {d1, d2}
MCOffers == d1 :> {"none", "kyber"} @@ d2 :> {"none"}

Ask(kind) == [kind |-> kind, asks |-> <<>>]
Tune(asks) == [kind |-> "tune", asks |-> asks]

\* Between them every knob, and a scheduler that no device has.
Server == Tune([governor |-> "performance", hugepages |-> 1, scheduler |-> "none"])
Desktop == Tune([hugepages |-> 2, scheduler |-> "kyber", thp |-> "always"])
Unknown == Tune([swappiness |-> 30, scheduler |-> "cfq", numa |-> 0])

\* The texts of the request are left empty.
Default == Tune([scheduler |-> "", thp |-> ""])

MCAsks ==
  c1 :> {Server, Desktop, Ask("aggressive"), Ask("audit")}
    @@ c2 :> {Server, Unknown, Default, Ask("safe"), Ask("custom"), Ask("work")}

MCMachines == {{"nvidia-smi", "nouveau", "i915"}, {"amdgpu", "VGA"}}
=============================================================================
