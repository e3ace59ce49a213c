-------------------------- MODULE ReleaseContract --------------------------
(***************************************************************************)
(* What the release workflow of the @infrix packages promises, whatever    *)
(* its scripts do in between: a version is released once, with a payload   *)
(* that the releasing commit builds, and a run ends green only when every  *)
(* package is on the registry with a payload of its own commit.            *)
(***************************************************************************)
CONSTANTS
  Packages,   \* the published packages
  Runs,       \* the runs of the workflow, each on a commit of its own
  Payloads,   \* what a tarball can contain
  Builds,     \* Builds[r][p]: the payloads that building p for run r can yield
  None,       \* no payload, no author
  Bootstrap   \* the author of a version released by hand, without provenance

VARIABLES
  registry,   \* registry[p]: the payload released as the target version of p
  author,     \* author[p]: the run that released it
  green       \* the runs that ended in success

contractVars == <<registry, author, green>>

CInit ==
  /\ registry \in [Packages -> Payloads \cup {None}]
  /\ author = [p \in Packages |-> IF registry[p] = None THEN None ELSE Bootstrap]
  /\ green = {}

Release(r, p) ==
  /\ registry[p] = None
  /\ \E b \in Builds[r][p] : registry' = [registry EXCEPT ![p] = b]
  /\ author' = [author EXCEPT ![p] = r]
  /\ UNCHANGED green

Succeed(r) ==
  /\ \A p \in Packages : registry[p] \in Builds[r][p] /\ author[p] # Bootstrap
  /\ green' = green \cup {r}
  /\ UNCHANGED <<registry, author>>

CNext ==
  \E r \in Runs :
    \/ \E p \in Packages : Release(r, p)
    \/ Succeed(r)

CSpec == CInit /\ [][CNext]_contractVars

=============================================================================
