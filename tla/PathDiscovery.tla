---------------------------- MODULE PathDiscovery ----------------------------
(***************************************************************************)
(* Where candidate paths come from (path_discovery/): a table, or the JSON *)
(* that `scion showpaths' prints, which describes a path in one of two     *)
(* ways.  A path is a sequence of hops [isd_as, ingress, egress].          *)
(***************************************************************************)
EXTENDS Integers, SequencesExt

CONSTANTS
    ASes,           \* the ASes of the topology
    LocalAS,        \* the AS whose daemon is asked
    RealPaths       \* the paths there are from LocalAS to dst_isd_as

PathHop == [isd_as : ASes, ingress : Nat, egress : Nat]

\* A path begins in one AS and ends in another, and leaves each AS it is in.
ASSUME PathDiscoveryAssumption ==
    /\ RealPaths \in Seq(Seq(PathHop))
    /\ \A path \in ToSet(RealPaths) :
          /\ Len(path) >= 2 /\ path[1].ingress = 0 /\ path[Len(path)].egress = 0
          /\ \A n \in 1..(Len(path) - 1) : path[n].isd_as # path[n + 1].isd_as

\* External: "isd_as#ingress,egress" per AS; the last egress may be left out.
PrintedSequence(path) ==
    [n \in DOMAIN path |->
        [isd_as |-> path[n].isd_as,
         ifaces |-> IF n = Len(path) THEN <<path[n].ingress>>
                    ELSE <<path[n].ingress, path[n].egress>>]]

\* External: one entry per interface, so that a transit AS comes twice.
PrintedHops(path) ==
    [k \in 1..(2 * Len(path) - 2) |->
        LET hop == path[(k \div 2) + 1]
        IN  [isd_as |-> hop.isd_as,
             interface |-> IF k % 2 = 0 THEN hop.ingress ELSE hop.egress]]

ParseSequence(tokens) ==
    [n \in DOMAIN tokens |->
        LET ifaces == tokens[n].ifaces
        IN  [isd_as |-> tokens[n].isd_as, ingress |-> ifaces[1],
             egress |-> IF Len(ifaces) > 1 THEN ifaces[2] ELSE 0]]

\* Mutant: the second entry of a transit AS is looked at again.
ParseHopsByOne(hops) ==
    LET Paired(i) == i < Len(hops) /\ hops[i + 1].isd_as = hops[i].isd_as
        parsed[i \in 1..(Len(hops) + 2)] ==
            IF i > Len(hops) THEN <<>>
            ELSE <<[isd_as |-> hops[i].isd_as,
                    ingress |-> IF i = 1 THEN 0 ELSE hops[i].interface,
                    egress |-> IF Paired(i) THEN hops[i + 1].interface ELSE 0]>>
                 \o parsed[i + 1]
    IN  parsed[1]

\* Two entries of one AS are its ingress and its egress; one alone is the
\* source's egress if it comes first, and the destination's ingress if not.
ParseHops(hops) ==
    LET Paired(i) == i < Len(hops) /\ hops[i + 1].isd_as = hops[i].isd_as
        Described(i) ==
            [isd_as |-> hops[i].isd_as,
             ingress |-> IF ~Paired(i) /\ i = 1 THEN 0 ELSE hops[i].interface,
             egress |-> IF Paired(i) THEN hops[i + 1].interface
                        ELSE IF i = 1 THEN hops[i].interface ELSE 0]
        parsed[i \in 1..(Len(hops) + 2)] ==
            IF i > Len(hops) THEN <<>>
            ELSE <<Described(i)>> \o parsed[IF Paired(i) THEN i + 2 ELSE i + 1]
    IN  parsed[1]

\* A `paths' entry that has a sequence is read from that.
ParsePath(path, hasSequence) ==
    IF hasSequence THEN ParseSequence(PrintedSequence(path))
                   ELSE ParseHops(PrintedHops(path))

\* What paths_from may return.  The table has the paths or none; no daemon for
\* the source, a timeout, an exit status and unreadable JSON count as none.
PathsFrom(src) ==
    {<<>>, RealPaths} \cup
    (IF src # LocalAS THEN {}
     ELSE {[n \in DOMAIN RealPaths |-> ParsePath(RealPaths[n], format[n])] :
              format \in [DOMAIN RealPaths -> BOOLEAN]})
=============================================================================
