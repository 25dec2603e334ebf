--------------------------- MODULE ElectionOrder ---------------------------
(***************************************************************************)
(* The comparison that decides which gateway build replaces which          *)
(* (dcc-mcp-gateway, gateway/version.rs).  A build is described by the     *)
(* version of its crate, the version of its adapter package, and the kind  *)
(* of host it advertises.  A version string is modelled by the place of    *)
(* its parsed triple in the order of triples.                              *)
(***************************************************************************)
EXTENDS Integers

NoAdapter == -1   \* adapter_version: None, below every version
ElectionInfo == [crate : Nat, adapter : Nat \cup {NoAdapter},
                 dcc : {"real", "unknown", "gateway"}]

is_newer_version(candidate, current) == candidate > current

(* The resident daemon gives way only to a newer crate; the adapter        *)
(* version and the preference for a real host come after.                  *)
is_newer_election(candidate, current) ==
  \/ candidate.crate > current.crate
  \/ /\ candidate.crate = current.crate
     /\ current.dcc # "gateway"
     /\ \/ candidate.adapter > current.adapter
        \/ /\ candidate.adapter = current.adapter
           /\ current.dcc = "unknown" /\ candidate.dcc # "unknown"
=============================================================================
