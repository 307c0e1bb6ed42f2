---------------------------- MODULE PluginLease ----------------------------
(***************************************************************************)
(* What OwnedGoPlugin promises (rust/src/callbacks.rs): native objects     *)
(* share a lease on one entry of the Go plugin registry.  A clone is only  *)
(* made from a clone, the drop of the last one removes the entry, and the  *)
(* entry never comes back (handles are not reused).                        *)
(***************************************************************************)

CONSTANT Owners    \* the native objects that can hold a clone

VARIABLES
    owners,        \* those that hold one
    entry          \* the registry entry

vars == <<owners, entry>>

Init == owners = {} /\ entry = "absent"

\* OwnedGoPlugin::new over a registration made for it.
New(x) ==
    /\ entry = "absent"
    /\ owners' = {x}
    /\ entry' = "registered"

\* The native constructor failed: the Go caller takes the entry out again.
Refused ==
    /\ entry = "absent"
    /\ entry' = "released"
    /\ UNCHANGED owners

\* Arc::clone
Clone(x) ==
    /\ owners # {}
    /\ owners' = owners \cup {x}
    /\ UNCHANGED entry

\* Drop for OwnedGoPluginInner runs when the last clone goes.
Drop(x) ==
    /\ x \in owners
    /\ owners' = owners \ {x}
    /\ entry' = IF owners' = {} THEN "dropping" ELSE entry

\* GoPlugin::release, through the vtable to releasePlugin.
Release ==
    /\ entry = "dropping"
    /\ entry' = "released"
    /\ UNCHANGED owners

Next == (\E x \in Owners : New(x) \/ Clone(x) \/ Drop(x)) \/ Refused \/ Release

Spec == Init /\ [][Next]_vars
=============================================================================
