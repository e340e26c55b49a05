--------------------------------- MODULE MCRuns ---------------------------------
(* Instances of Runs for TLC.                                               *)
EXTENDS Runs, TLC

BodySymmetry == Permutations(Body)

\* One run that is watched and sends events.
Watched ==
    /\ started <= 1
    /\ \A i \in DOMAIN origin : origin[i].key = NoKey
    /\ clock <= StatusTtl

\* Several runs under a key, that nobody watches and that have no events but
\* their last.
Repeated ==
    /\ \A i \in DOMAIN origin : origin[i].key # NoKey
    /\ \A x \in Reader : reader[x].pc = "off"
    /\ \A r \in Run : worker[r] # "asking" /\ "delta" \notin {posted[r][i] : i \in DOMAIN posted[r]}

Scope == Watched \/ Repeated

=============================================================================
