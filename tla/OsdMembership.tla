--------------------------- MODULE OsdMembership ---------------------------
(***************************************************************************)
(* What the OSD thrasher promises about the cluster it thrashes, without   *)
(* how it gets there: OSDs are killed and revived, marked out and marked   *)
(* in, one at a time, and never so far that fewer than MinLive daemons are *)
(* left running or fewer than MinIn OSDs are left in the data placement.   *)
(* OsdThrasher implements this specification.                              *)
(***************************************************************************)
EXTENDS Integers, FiniteSets

CONSTANTS Osds, MinIn, MinLive

VARIABLES live, in

membershipVars == <<live, in>>

MembershipInit == live \in SUBSET Osds /\ in \in SUBSET Osds

Kill(o) == /\ o \in live
           /\ Cardinality(live) > MinLive
           /\ live' = live \ {o}
           /\ in' = in

Revive(o) == live' = live \cup {o} /\ in' = in

MarkOut(o) == /\ o \in in
              /\ Cardinality(in) > MinIn
              /\ in' = in \ {o}
              /\ live' = live

MarkIn(o) == in' = in \cup {o} /\ live' = live

MembershipNext ==
    \E o \in Osds : Kill(o) \/ Revive(o) \/ MarkOut(o) \/ MarkIn(o)

MembershipSpec == MembershipInit /\ [][MembershipNext]_membershipVars
=============================================================================
