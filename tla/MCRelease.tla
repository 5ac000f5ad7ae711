------------------------------ MODULE MCRelease ------------------------------
\* A small instance of ReleaseReconciler for TLC.
EXTENDS ReleaseReconciler

CONSTANTS x, y, bad, t1, t2, odd, openstack

MCInRange == [v \in Range |-> IF v = x THEN {t1} ELSE {t2, odd}]

MCRank == [t \in Tag |-> IF t = t1 THEN 1 ELSE IF t = t2 THEN 2 ELSE 0]

MCPublished == [t \in Type |-> IF t = "kubernetes" THEN {t1, odd} ELSE {t1, t2}]

Kubernetes(ranges) ==
    [type |-> "kubernetes", ranges |-> ranges, platform |-> Nil, schematic |-> Nil]

Installer(ranges, platform) ==
    [type |-> "installer", ranges |-> ranges, platform |-> platform, schematic |-> Nil]

\* Two ranges, one of them with a tag that is no version; a range that makes no
\* object name; installers with and without a URL; an installer with two ranges; another type.
MCSpecs ==
    {Kubernetes(<<x, y>>), Kubernetes(<<x, bad>>), Installer(<<x>>, openstack),
     Installer(<<y>>, "unknown"), Installer(<<x, y>>, openstack),
     [Kubernetes(<<x>>) EXCEPT !.type = "other"]}

=============================================================================
