------------------------------ MODULE Environ ------------------------------
(***************************************************************************)
(* The environment: getenv, setenv, putenv, unsetenv and clearenv over the *)
(* array environ, which the library fetches from the host when it first    *)
(* needs it, and the table of the strings that setenv has allocated.       *)
(*                                                                         *)
(* A string is its place in str.  Any allocation may fail.  What environ   *)
(* lists is kept, not which array holds the list: the host's, putenv's own *)
(* or none after clearenv.                                                 *)
(***************************************************************************)
EXTENDS Integers, Sequences, SequencesExt, FiniteSets

CONSTANTS
    Name, Value,
    HostEnvs,      \* what the host may pass: sequences of <<name, value>>, perhaps with duplicates
    NoValue,       \* NULL of getenv
    MaxStrings     \* bound on the strings a behaviour makes

VARIABLES
    str,       \* every string so far: name, value, owner, how often it was freed
    env,       \* the strings that environ lists
    alloced,   \* env_alloced; 0 is an empty place
    lost,      \* setenv's strings that env_alloced had no room for
    map        \* what the calls so far promise of each name

vars == <<str, env, alloced, lost, map>>

String(pair, owner) == [name |-> pair[1], value |-> pair[2], owner |-> owner, freed |-> 0]

\* getenv.
ValueIn(list, strings, name) ==
    LET i == SelectInSeq(list, LAMBDA s : strings[s].name = name)
    IN  IF i = 0 THEN NoValue ELSE strings[list[i]].value

\* The list that the first call of any of the functions fetches.
Init ==
    \E host \in HostEnvs :
       /\ str = [i \in DOMAIN host |-> String(host[i], "host")]
       /\ env = [i \in DOMAIN host |-> i]
       /\ alloced = <<>> /\ lost = {}
       /\ map = [n \in Name |-> ValueIn([i \in DOMAIN host |-> i], str, n)]

-----------------------------------------------------------------------------

Free(strings, s) == IF s = 0 THEN strings ELSE [strings EXCEPT ![s].freed = @ + 1]

\* __env_rm_add: takes out and frees old if it is setenv's, and keeps new in the first
\* empty place or the place of old, whichever comes first.  m holds str, alloced, lost.
RmAdd(m, old, new) ==
    LET i == SelectInSeq(m.alloced, LAMBDA s : s = old)
        e == SelectInSeq(m.alloced, LAMBDA s : s = 0)
        hasRoom == new # 0 /\ e # 0 /\ (i = 0 \/ e < i)
        a == IF hasRoom THEN [m.alloced EXCEPT ![e] = new] ELSE m.alloced
        rest == IF hasRoom THEN 0 ELSE new
    IN  IF i # 0 THEN {[m EXCEPT !.alloced = [a EXCEPT ![i] = rest], !.str = Free(m.str, old)]}
        ELSE IF rest = 0 THEN {[m EXCEPT !.alloced = a]}
        ELSE {[m EXCEPT !.alloced = Append(a, rest)], [m EXCEPT !.lost = @ \cup {rest}]}

Memory(strings) == [str |-> strings, alloced |-> alloced, lost |-> lost]

Becomes(m) == str' = m.str /\ alloced' = m.alloced /\ lost' = m.lost

\* __putenv where the name is in the environment already.
Replace(strings, s, r) ==
    LET i == SelectInSeq(env, LAMBDA e : strings[e].name = strings[s].name)
    IN  /\ i # 0
        /\ env' = [env EXCEPT ![i] = s]
        /\ \E m \in RmAdd(Memory(strings), env[i], r) : Becomes(m)
        /\ map' = [map EXCEPT ![strings[s].name] = strings[s].value]

\* __putenv where it is not: the list grows by one, or fails to.
Add(strings, s, r) ==
    /\ SelectInSeq(env, LAMBDA e : strings[e].name = strings[s].name) = 0
    /\ \/ /\ env' = Append(env, s)
          /\ IF r = 0 THEN Becomes(Memory(strings)) ELSE \E m \in RmAdd(Memory(strings), 0, r) : Becomes(m)
          /\ map' = [map EXCEPT ![strings[s].name] = strings[s].value]
       \/ /\ Becomes(Memory(Free(strings, r)))
          /\ UNCHANGED <<env, map>>

PutString(strings, s, r) == Replace(strings, s, r) \/ Add(strings, s, r)

Setenv(n, v, overwrite) ==
    LET new == Len(str) + 1
    IN  IF ~overwrite /\ ValueIn(env, str, n) # NoValue
        THEN UNCHANGED vars
        ELSE new <= MaxStrings /\ PutString(Append(str, String(<<n, v>>, "setenv")), new, new)

\* putenv of a string of the program's, a new one or one that was put before.  The
\* program's strings are in no other name's place: it does not write to one in environ.
Putenv(n, v) ==
    \/ Len(str) < MaxStrings /\ PutString(Append(str, String(<<n, v>>, "program")), Len(str) + 1, 0)
    \/ \E s \in DOMAIN str : str[s] = String(<<n, v>>, "program") /\ PutString(str, s, 0)

\* The strings of a list are released one after the other.
Released(m, list) == FoldSeq(LAMBDA s, ms : UNION {RmAdd(x, s, 0) : x \in ms}, {m}, list)

\* Mutant of Unsetenv: only the first of the name goes.
UnsetenvFirst(n) ==
    LET i == SelectInSeq(env, LAMBDA s : str[s].name = n)
    IN  /\ env' = IF i = 0 THEN env ELSE RemoveAt(env, i)
        /\ \E m \in Released(Memory(str), IF i = 0 THEN <<>> ELSE <<env[i]>>) : Becomes(m)
        /\ map' = [map EXCEPT ![n] = NoValue]

Unsetenv(n) ==
    LET IsNamed(s) == str[s].name = n
        IsOther(s) == str[s].name # n
    IN  /\ env' = SelectSeq(env, IsOther)
        /\ \E m \in Released(Memory(str), SelectSeq(env, IsNamed)) : Becomes(m)
        /\ map' = [map EXCEPT ![n] = NoValue]

Clearenv ==
    /\ env' = <<>>
    /\ \E m \in Released(Memory(str), env) : Becomes(m)
    /\ map' = [n \in Name |-> NoValue]

Next ==
    \/ \E n \in Name, v \in Value, overwrite \in BOOLEAN : Setenv(n, v, overwrite)
    \/ \E n \in Name, v \in Value : Putenv(n, v)
    \/ \E n \in Name : Unsetenv(n)
    \/ Clearenv

Spec == Init /\ [][Next]_vars

-----------------------------------------------------------------------------
(* Properties.                                                             *)

\* getenv finds of every name what the calls before it promise, however often the host
\* has passed the name, which call fails and where the strings are kept.
EnvironIsMap == \A n \in Name : ValueIn(env, str, n) = map[n]

\* The strings in the environment are alive; those of the host and of the program are
\* never freed; those of setenv are freed once when they leave the environment, unless
\* the table could not grow to hold them.
StringsAreOwned ==
    \A s \in DOMAIN str :
       str[s].freed = (IF str[s].owner = "setenv" /\ s \notin ToSet(env) \cup lost THEN 1 ELSE 0)

=============================================================================
