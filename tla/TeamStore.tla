----------------------------- MODULE TeamStore ------------------------------
(***************************************************************************)
(* The shared store of one agent team (internal/team/store.go): its access *)
(* rules, its four limits, and its accesses, each a request on a goroutine *)
(* of its own.  The limits are tested and the entry replaced under one     *)
(* acquisition of the store's mutex; the rules never change, and the       *)
(* record is written after the mutex is dropped.                           *)
(*                                                                         *)
(* A value is the call that put it.  The keys and agents a pattern of a    *)
(* rule matches are given as a set.                                        *)
(***************************************************************************)
EXTENDS Team, Integers, Sequences, FiniteSets, SequencesExt, FiniteSetsExt

CONSTANTS
  Rules,        \* the rules a team file may hold: what each matches and lists
  MaxRules,     \* bound: rules in one file
  KeyLen,       \* the length of each key
  Sizes,        \* lengths of the values put; 0 removes the key
  MaxKeyBytes, MaxValueBytes, MaxStoreBytes, MaxStoreKeys

Keys == DOMAIN KeyLen

ASSUME StoreAssumption ==
  /\ None \notin Calls
  /\ \A r \in Rules : r.keys \subseteq Keys /\ r.read \subseteq Agents
                      /\ r.write \subseteq Agents
  /\ KeyLen \in [Keys -> Nat] /\ Sizes \subseteq Nat /\ MaxRules \in Nat
  /\ {MaxKeyBytes, MaxValueBytes, MaxStoreBytes, MaxStoreKeys} \subseteq Nat

VARIABLES
  rules,         \* Store.rules, in the order of the file
  data, bytes,   \* Store.data, Store.bytes
  access, stage, \* what each access is, and where its goroutine is
  result, given, \* what it came to, and the value it returned
  recorded       \* what reached the flight recorder

storeVars == <<rules, data, bytes, access, stage, result, given, recorded>>

NoAccess == [op |-> "none", by |-> None, key |-> None, size |-> 0]

StoreInit ==
  /\ rules \in UNION {[1..n -> Rules] : n \in 0..MaxRules}
  /\ data = [k \in Keys |-> None] /\ bytes = 0
  /\ access = [c \in Calls |-> NoAccess] /\ stage = [c \in Calls |-> "new"]
  /\ result = [c \in Calls |-> "none"] /\ given = [c \in Calls |-> None]
  /\ recorded = {}

---------------------------------------------------------------------------
\* may: the first rule that matches the key decides, and a key no rule matches
\* belongs to the whole team.
Matching(rs, key) == {i \in DOMAIN rs : key \in rs[i].keys}
Listed(rule, op)  == IF op = "get" THEN rule.read ELSE rule.write
\* Mutant: the last rule that matches decides.
May_Last(rs, agent, key, op) ==
  Matching(rs, key) # {} => agent \in Listed(rs[Max(Matching(rs, key))], op)

May(rs, agent, key, op) ==
  Matching(rs, key) # {} => agent \in Listed(rs[Min(Matching(rs, key))], op)

\* What Get and Put refuse before they look at the store, in their order.
\* Mutant: a put is tested against the readers.
Refusal_Reader(c) ==
  LET key == access[c].key IN
  IF KeyLen[key] > MaxKeyBytes THEN "key_too_long"
  ELSE IF ~May(rules, access[c].by, key, "get") THEN "denied"
  ELSE IF access[c].op = "put" /\ access[c].size > MaxValueBytes THEN "value_too_large"
  ELSE "none"

Refusal(c) ==
  LET key == access[c].key IN
  IF KeyLen[key] > MaxKeyBytes THEN "key_too_long"
  ELSE IF ~May(rules, access[c].by, key, access[c].op) THEN "denied"
  ELSE IF access[c].op = "put" /\ access[c].size > MaxValueBytes THEN "value_too_large"
  ELSE "none"

Access(c, op, a, key, n) ==
  /\ stage[c] = "new"
  /\ access' = [access EXCEPT ![c] = [op |-> op, by |-> a, key |-> key, size |-> n]]
  /\ stage' = [stage EXCEPT ![c] = "check"]
  /\ UNCHANGED <<rules, data, bytes, result, given, recorded>>

Move(c, from, to) == stage[c] = from /\ stage' = [stage EXCEPT ![c] = to]
Settle(c, what)   == result' = [result EXCEPT ![c] = what]

Check(c) ==
  /\ stage[c] = "check"
  /\ IF Refusal(c) = "none"
     THEN Move(c, "check", "access") /\ UNCHANGED result
     ELSE Move(c, "check", "record") /\ Settle(c, Refusal(c))
  /\ UNCHANGED <<rules, data, bytes, access, given, recorded>>

---------------------------------------------------------------------------
Value(key) == IF data[key] = None THEN 0 ELSE access[data[key]].size
Entries    == {k \in Keys : data[k] # None}

Get(c) ==
  LET key == access[c].key IN
  /\ Move(c, "access", "record") /\ access[c].op = "get"
  /\ given' = [given EXCEPT ![c] = data[key]]
  /\ Settle(c, IF key \in Entries THEN "delivered" ELSE "no_such_key")
  /\ UNCHANGED <<rules, data, bytes, access, recorded>>

\* Mutant: the key is not given back with its value.
Delete_Value(c) ==
  LET key == access[c].key IN
  /\ Move(c, "access", "record") /\ access[c].op = "put" /\ access[c].size = 0
  /\ data' = [data EXCEPT ![key] = None]
  /\ bytes' = bytes - Value(key)
  /\ Settle(c, "delivered")
  /\ UNCHANGED <<rules, access, given, recorded>>

Delete(c) ==
  LET key == access[c].key IN
  /\ Move(c, "access", "record") /\ access[c].op = "put" /\ access[c].size = 0
  /\ data' = [data EXCEPT ![key] = None]
  /\ bytes' = IF key \in Entries THEN bytes - (Value(key) + KeyLen[key]) ELSE bytes
  /\ Settle(c, "delivered")
  /\ UNCHANGED <<rules, access, given, recorded>>

\* Mutant: a new key weighs nothing.
Grown_Keyless(c) ==
  LET key == access[c].key IN bytes - Value(key) + access[c].size

\* What the store would weigh, and why it takes no more.
Grown(c) ==
  LET key == access[c].key IN
  bytes - Value(key) + access[c].size + IF key \in Entries THEN 0 ELSE KeyLen[key]
Full(c) ==
  IF access[c].key \notin Entries /\ Cardinality(Entries) >= MaxStoreKeys THEN "too_many_keys"
  ELSE IF Grown(c) > MaxStoreBytes THEN "store_full"
  ELSE "none"

Put(c) ==
  /\ Move(c, "access", "record") /\ access[c].op = "put" /\ access[c].size > 0
  /\ IF Full(c) = "none"
     THEN /\ data' = [data EXCEPT ![access[c].key] = c]
          /\ bytes' = Grown(c)
          /\ Settle(c, "delivered")
     ELSE UNCHANGED <<data, bytes>> /\ Settle(c, Full(c))
  /\ UNCHANGED <<rules, access, given, recorded>>

\* The access is recorded, then answered.
RecordAccess(c) ==
  /\ Move(c, "record", "done")
  /\ recorded' = recorded \cup {[of |-> c, outcome |-> result[c]]}
  /\ UNCHANGED <<rules, data, bytes, access, result, given>>

StoreNext == \E c \in Calls :
  \/ \E op \in {"get", "put"}, a \in Agents, key \in Keys, n \in Sizes :
       (op = "get" => n = 0) /\ Access(c, op, a, key, n)
  \/ Check(c) \/ Get(c) \/ Delete(c) \/ Put(c) \/ RecordAccess(c)

StoreSpec == StoreInit /\ [][StoreNext]_storeVars

---------------------------------------------------------------------------
Reasons ==
  {"none", "delivered", "no_such_key", "key_too_long", "denied", "value_too_large",
   "too_many_keys", "store_full"}

\* Every variable has its type.
StoreTypeOK ==
  /\ rules \in Seq(Rules) /\ Len(rules) <= MaxRules
  /\ data \in [Keys -> Calls \cup {None}] /\ bytes \in Nat
  /\ access \in [Calls -> {NoAccess} \cup
                 [op : {"get", "put"}, by : Agents, key : Keys, size : Sizes]]
  /\ stage \in [Calls -> {"new", "check", "access", "record", "done"}]
  /\ result \in [Calls -> Reasons] /\ given \in [Calls -> Calls \cup {None}]
  /\ recorded \subseteq [of : Calls, outcome : Reasons]

\* The running count of bytes is the number of bytes the store holds, keys with
\* values, whatever was put over what and removed by whom; so neither limit is
\* ever passed and a key that is removed gives back all it cost (Put's grown,
\* the delete of an empty Put).
Weight == [k \in Keys |-> KeyLen[k] + Value(k)]
BytesOf(keys, weight) == UNION {{k} \X (1..weight[k]) : k \in keys}
Accounting ==
  /\ bytes = Cardinality(BytesOf(Entries, Weight))
  /\ bytes <= MaxStoreBytes /\ Cardinality(Entries) <= MaxStoreKeys

\* A value an agent was given, or could be, was put under that key by an agent
\* the rules let write it, and went only to agents they let read it; a refused
\* access left nothing behind (the checks before the mutex, the limits under it).
OnlyPermitted ==
  /\ \A k \in Entries :
       /\ access[data[k]].op = "put" /\ access[data[k]].key = k
       /\ result[data[k]] = "delivered"
       /\ May(rules, access[data[k]].by, k, "put")
  /\ \A c \in Calls : given[c] # None =>
       /\ access[given[c]].key = access[c].key /\ result[given[c]] = "delivered"
       /\ May(rules, access[given[c]].by, access[c].key, "put")
       /\ May(rules, access[c].by, access[c].key, "get")

Narrows(more) ==
  \A a \in Agents, k \in Keys, op \in {"get", "put"} :
    May(more, a, k, op) => May(rules, a, k, op)

\* A rule added after the others takes access away or leaves it (may's first match).
LastRuleNarrows == \A r \in Rules : Narrows(Append(rules, r))

\* The store's count is exact and only what the rules permit is kept or given
\* (Get, Put, may).
StoreSafe == StoreTypeOK /\ Accounting /\ OnlyPermitted /\ LastRuleNarrows

\* What the proof that StoreSafe holds adds to it: an access is what it was made,
\* has come to nothing before it looks at the store and reaches it only when it
\* was refused nothing; and what the store holds was put by an access that is over.
AccessInv ==
  \A c \in Calls :
    /\ stage[c] = "new" \/ access[c] # NoAccess
    /\ stage[c] \in {"new", "check", "access"} => result[c] = "none" /\ given[c] = None
    /\ stage[c] = "access" => Refusal(c) = "none"
    /\ given[c] # None => access[c].op = "get" /\ stage[given[c]] \in {"record", "done"}
EntryInv ==
  /\ IsFiniteSet(Entries)
  /\ \A k \in Entries : access[data[k]].size > 0 /\ stage[data[k]] \in {"record", "done"}
StoreInv == StoreSafe /\ AccessInv /\ EntryInv

\* "adding a rule can only ever narrow access, never widen it" (Rule's comment and
\* docs/teams.md), wherever in the file it is added: what was let through would be
\* without any one of the rules.  The code does not keep it; see the README.
RuleNarrows ==
  \A c \in Calls : result[c] = "delivered" =>
    \A i \in DOMAIN rules : May(RemoveAt(rules, i), access[c].by, access[c].key, access[c].op)
=============================================================================
