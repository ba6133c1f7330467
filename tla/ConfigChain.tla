----------------------------- MODULE ConfigChain -----------------------------
(***************************************************************************)
(* config.go: a *Config is built by chained Set and Add calls, each of     *)
(* which clones its receiver.  Clone copies the slice of error resolvers,  *)
(* not the array behind it.  A program may derive several configs from one *)
(* and install each with Use.                                              *)
(***************************************************************************)
EXTENDS GoSlices

CONSTANTS
    Fns,           \* error resolvers of the program
    BodyLimitFn,   \* bodyLimitErrorResolver
    Limits,        \* values given to SetMaxRequestBodyBytes
    DefaultLimit,  \* DefaultMaxRequestBodyBytes
    MaxConfigs,    \* bound: configs derived
    MaxAdd         \* bound: resolvers added in one call

ASSUME FnsAssumption == BodyLimitFn \notin Fns /\ Nil \notin Fns \cup {BodyLimitFn}
ASSUME MaxConfigsAssumption == MaxConfigs \in Nat \ {0}
ASSUME LimitAssumption == Limits \subseteq Int /\ DefaultLimit \in Nat \ {0}

VARIABLES
    backing,   \* the arrays behind the slices of resolvers
    configs,   \* the configs made so far, the first by NewConfig
    made       \* what each of them was built to hold, and the configs it was
               \* derived through, itself included (history)

configVars == <<backing, configs, made>>

ResolverCells == Fns \cup {BodyLimitFn, Nil}
FnSeqs == UNION {[1..n -> Fns] : n \in 0..MaxAdd}
Resolvers(i) == View(backing, configs[i].resolvers)
Known == DOMAIN configs

ConfigTypeOK ==
    /\ \A a \in DOMAIN backing : \A j \in DOMAIN backing[a] : backing[a][j] \in ResolverCells
    /\ Len(configs) <= MaxConfigs /\ Len(made) = Len(configs)
    /\ \A i \in Known : /\ configs[i].resolvers.arr \in 0..Len(backing)
                        /\ configs[i].resolvers.len <= Cap(backing, configs[i].resolvers)
                        /\ configs[i].parent \in 0..(i - 1)

\* NewConfig.
ConfigInit ==
    /\ backing = <<<<BodyLimitFn>>>>
    /\ configs = <<[resolvers |-> [arr |-> 1, len |-> 1], limit |-> DefaultLimit,
                    parent |-> 0, added |-> FALSE]>>
    /\ made = <<[resolvers |-> <<BodyLimitFn>>, limit |-> DefaultLimit, line |-> {1}]>>

\* Clone, with the change a Set or Add call makes to the copy.
Derive(i, rs, lim, added, expected) ==
    /\ Len(configs) < MaxConfigs
    /\ configs' = Append(configs, [resolvers |-> rs, limit |-> lim, parent |-> i, added |-> added])
    /\ made' = Append(made, [resolvers |-> expected, limit |-> lim,
                             line |-> made[i].line \cup {Len(made) + 1}])

\* Mutant of SetErrorResolvers: the resolvers are overwritten in place.
SetErrorResolversInPlace(i, fs) ==
    LET a == Append_(backing, [configs[i].resolvers EXCEPT !.len = 0], fs)
    IN  backing' = a.arrays /\ Derive(i, a.slice, configs[i].limit, FALSE, fs)

\* SetErrorResolvers keeps the slice of its arguments.  They are given one by one,
\* not as a slice that the program may change later: the array is the call's own.
SetErrorResolvers(i, fs) ==
    LET a == Append_(backing, NilSlice, fs)
    IN  backing' = a.arrays /\ Derive(i, a.slice, configs[i].limit, FALSE, fs)

\* Mutant of AddErrorResolvers: new resolvers go in front.
AddErrorResolversInFront(i, fs) ==
    LET a == Append_(backing, NilSlice, fs \o Resolvers(i))
    IN  backing' = a.arrays /\ Derive(i, a.slice, configs[i].limit, TRUE, made[i].resolvers \o fs)

\* AddErrorResolvers appends to the slice the clone shares with its origin.
AddErrorResolvers(i, fs) ==
    LET a == Append_(backing, configs[i].resolvers, fs)
    IN  /\ backing' = a.arrays
        /\ Derive(i, a.slice, configs[i].limit, TRUE, made[i].resolvers \o fs)

\* SetMaxRequestBodyBytes stands for every Set call that replaces one field.
SetMaxRequestBodyBytes(i, n) ==
    /\ n # configs[i].limit
    /\ Derive(i, configs[i].resolvers, n, FALSE, made[i].resolvers)
    /\ UNCHANGED backing

ConfigNext ==
    \E i \in Known :
        \/ \E fs \in FnSeqs : SetErrorResolvers(i, fs)
        \/ \E fs \in FnSeqs \ {<<>>} : AddErrorResolvers(i, fs)
        \/ \E n \in Limits : SetMaxRequestBodyBytes(i, n)

ConfigSpec == ConfigInit /\ [][ConfigNext]_configVars

-----------------------------------------------------------------------------
Intact(i) == Resolvers(i) = made[i].resolvers

\* A config is overwritten only by a fork: an AddErrorResolvers outside of its
\* line that started from a shorter slice of an array which it, or a config it
\* was derived through, looks into.  A chain of calls, each on the result of the
\* one before, is safe however long it is.  And no fork displaces the first
\* resolver, which is bodyLimitErrorResolver until SetErrorResolvers.
ForksOnly ==
    \A i \in Known :
        /\ ~Intact(i) =>
             \E a \in made[i].line, b \in Known \ made[i].line :
                 LET p == configs[configs[b].parent].resolvers
                     s == configs[a].resolvers
                 IN  configs[b].added /\ p.arr = s.arr /\ p.len < s.len
        /\ made[i].resolvers # <<>> => Head(Resolvers(i)) = Head(made[i].resolvers)

\* config.go:133: AddErrorResolvers "adds additional error resolvers to the
\* existing ones"; bodylimit_test.go:37: "original config was mutated".  A
\* config keeps what it was built to hold, whatever is derived from it or from
\* its relatives.
ConfigsImmutable == \A i \in Known : Intact(i)
=============================================================================
