--------------------------- MODULE SchemaRouting ---------------------------
(***************************************************************************)
(* The repository and definition levels the macros generate: each inserts  *)
(* its own subscription rows, then hands the wrapped value and the topics  *)
(* meant for it to the next level; deletes and gets descend by the variant *)
(* of their address and key.  The model level, which module ModelStore has *)
(* in full, is its record and its own topics' rows here.                   *)
(*                                                                         *)
(* A topic key of a level is a path: a topic of its own <<t>>, or a child  *)
(* and a topic key of the child.  A model's content stands for its hash.   *)
(* The store is one map from <<scope, topic, key>>, the table being the    *)
(* scope's table of that topic.                                            *)
(***************************************************************************)
EXTENDS Integers, FiniteSets, SequencesExt

CONSTANTS
  Definitions,    \* the definitions of the repository
  ModelsOf,       \* the models of a definition; no two definitions share one
  Ids,            \* the primary keys of a model
  Contents,       \* the values of a model, apart from their key
  RepoTopics,     \* the repository's own topics, in declaration order
  DefTopics,      \* the own topics of each definition
  ModelTopics,    \* the own topics of each model
  Primary,        \* stands for the primary table among a model's tables
  TopicLists      \* the topic lists callers configure repository inserts with

VARIABLES
  tx,             \* "idle" or "write"
  base,           \* the committed store
  work,           \* the store the open write transaction sees
  failed,         \* whether a call has failed
  ret             \* what the last call returned

vars == <<tx, base, work, failed, ret>>

(* A topic key is a variant of a generated enum: only declared topics have *)
(* one.                                                                    *)
ASSUME TopicAssumption ==
  /\ RepoTopics \in Seq(Range(RepoTopics))
  /\ \A d \in Definitions :
       /\ DefTopics[d] \in Seq(Range(DefTopics[d]))
       /\ \A m \in ModelsOf[d] : ModelTopics[m] \in Seq(Range(ModelTopics[m]))
  /\ \A topics \in TopicLists :
       topics \in Seq({<<t>> : t \in Range(RepoTopics)} \cup
                     UNION {{<<d, t>> : t \in Range(DefTopics[d])} \cup
                            UNION {{<<d, m, t>> : t \in Range(ModelTopics[m])} : m \in ModelsOf[d]}
                            : d \in Definitions})

Models == UNION {ModelsOf[d] : d \in Definitions}
Items == {i \in [def : Definitions, model : Models, id : Ids, content : Contents] :
            i.model \in ModelsOf[i.def]}

Init ==
  /\ tx = "idle"
  /\ base = <<>>
  /\ work = <<>>
  /\ failed = FALSE
  /\ ret = "none"

write_transaction ==
  /\ tx = "idle"
  /\ tx' = "write"
  /\ work' = base
  /\ ret' = "ok"
  /\ UNCHANGED <<base, failed>>

\* The caller decides: a transaction in which a call failed commits too.
commit ==
  /\ tx = "write"
  /\ tx' = "idle"
  /\ base' = work
  /\ work' = <<>>
  /\ ret' = "ok"
  /\ UNCHANGED failed

\* What has not been committed is gone.
rollback ==
  /\ tx = "write"
  /\ tx' = "idle"
  /\ work' = <<>>
  /\ ret' = "ok"
  /\ UNCHANGED <<base, failed>>

----------------------------------------------------------------------------
(* Insert.  An operator of a level gives the writes it makes, in order.    *)

put(scope, topic, key, content) == [at |-> <<scope, topic, key>>, val |-> content]

\* The entries of s that are in S, in order: the n-th is that whose place is the
\* n-th of theirs.
Among(s, S) ==
  LET places == {i \in DOMAIN s : s[i] \in S}
      nth(n) == CHOOSE i \in places : Cardinality({j \in places : j <= i}) = n
  IN  [n \in 1..Cardinality(places) |-> s[nth(n)]]

\* Mutant: the topic keys of every child go to the child that is inserted.
rekey_unfiltered(topics, child) ==
  LET nested == Among(topics, {q \in Range(topics) : Len(q) > 1})
  IN  [i \in DOMAIN nested |-> Tail(nested[i])]

\* The topic keys meant for a child, as topic keys of the child.
rekey(topics, child) ==
  LET mine == Among(topics, {q \in Range(topics) : Len(q) > 1 /\ q[1] = child})
  IN  [i \in DOMAIN mine |-> Tail(mine[i])]

\* A level's own topics, in declaration order, if the configuration names them.
own_sub_writes(scope, declared, key, content, topics) ==
  LET asked == Among(declared, {t \in Range(declared) : <<t>> \in Range(topics)})
  IN  [i \in DOMAIN asked |-> put(scope, asked[i], key, content)]

model_insert(i, topics) ==
  <<put(<<i.def, i.model>>, Primary, <<i.id>>, i.content)>> \o
  [n \in DOMAIN topics |-> put(<<i.def, i.model>>, topics[n][1], <<i.id>>, i.content)]

\* Mutant: every key is tagged as the definition's first model.
def_primary_key_first_variant(i) == <<CHOOSE m \in ModelsOf[i.def] : TRUE, i.id>>

\* The definition's primary key for a value: the model's, tagged by model.
def_primary_key(i) == <<i.model, i.id>>
repo_primary_key(i) == <<i.def, i.model, i.id>>

def_insert(i, topics) ==
  own_sub_writes(<<i.def>>, DefTopics[i.def], def_primary_key(i), i.content, topics)
    \o model_insert(i, rekey(topics, i.model))

\* Mutant: the repository keys its own rows by the definition's primary key.
repo_insert_unwrapped(i, topics) ==
  own_sub_writes(<<>>, RepoTopics, def_primary_key(i), i.content, topics)
    \o def_insert(i, rekey(topics, i.def))

\* Mutant: the repository passes the value on and forgets its own topics.
repo_insert_passes_on(i, topics) == def_insert(i, rekey(topics, i.def))

repo_insert(i, topics) ==
  own_sub_writes(<<>>, RepoTopics, repo_primary_key(i), i.content, topics)
    \o def_insert(i, rekey(topics, i.def))

\* Of two writes to a cell, the later one counts.
Written(store, writes) ==
  LET cells == {writes[n].at : n \in DOMAIN writes}
      last(c) == CHOOSE n \in DOMAIN writes :
                   writes[n].at = c /\ \A m \in DOMAIN writes : writes[m].at = c => m <= n
  IN  [c \in DOMAIN store \cup cells |-> IF c \in cells THEN writes[last(c)].val ELSE store[c]]

\* The first error ends the call and leaves the writes made before it staged;
\* the model's remaining tables, written last, may be what fails.
insert(writes) ==
  /\ tx = "write"
  /\ \/ /\ ret' = "ok"
        /\ work' = Written(work, writes)
        /\ UNCHANGED failed
     \/ /\ ret' = "failed"
        /\ \E n \in 0..Len(writes) : work' = Written(work, SubSeq(writes, 1, n))
        /\ failed' = TRUE
  /\ UNCHANGED <<tx, base>>

----------------------------------------------------------------------------
(* Delete.  An operator of a level gives the error it returns, or the      *)
(* cells it removes, in order.                                             *)

Refuse(error) == [error |-> error, removes |-> <<>>]

\* Mutant: the topic rows of the model stay.
model_delete_keeps_topics(scope, id) ==
  IF <<scope, Primary, <<id>>>> \notin DOMAIN work THEN Refuse("UnknownAddress")
  ELSE [error |-> "none", removes |-> <<<<scope, Primary, <<id>>>>>>]

model_delete(scope, id) ==
  LET topics == ModelTopics[scope[2]]
  IN  IF <<scope, Primary, <<id>>>> \notin DOMAIN work THEN Refuse("UnknownAddress")
      ELSE [error |-> "none",
            removes |-> <<<<scope, Primary, <<id>>>>>>
                          \o [n \in DOMAIN topics |-> <<scope, topics[n], <<id>>>>]]

\* Mutant: the address picks the model, whatever the key's variant.
def_delete_by_address(d, address, key) == model_delete(<<d, address>>, key[2])

\* address names a model, key a model and its primary key.
def_delete(d, address, key) ==
  IF key[1] # address THEN Refuse("WrongVariant") ELSE model_delete(<<d, address>>, key[2])

\* address names a definition and a model; key is tagged by both.
repo_delete(address, key) ==
  IF key[1] # address[1] THEN Refuse("WrongVariant")
  ELSE def_delete(address[1], address[2], Tail(key))

delete(result) ==
  /\ tx = "write"
  /\ LET cells == result.removes
         without(n) == Restrict(work, DOMAIN work \ Range(SubSeq(cells, 1, n)))
     IN  \/ /\ result.error # "none"
            /\ ret' = result.error
            /\ UNCHANGED <<work, failed>>
         \/ /\ result.error = "none"
            /\ work' = without(Len(cells))
            /\ ret' = "ok"
            /\ UNCHANGED failed
         \/ /\ result.error = "none"
            /\ \E n \in 0..Len(cells) : work' = without(n)
            /\ ret' = "failed"
            /\ failed' = TRUE
  /\ UNCHANGED <<tx, base>>

----------------------------------------------------------------------------
(* Get.                                                                    *)

Seen == IF tx = "write" THEN work ELSE base

model_get(scope, id) ==
  IF <<scope, Primary, <<id>>>> \in DOMAIN Seen THEN Seen[<<scope, Primary, <<id>>>>]
                                                ELSE "absent"
def_get(d, key) == model_get(<<d, key[1]>>, key[2])
repo_get(key) == def_get(key[1], Tail(key))

get(key) ==
  /\ ret' = repo_get(key)
  /\ UNCHANGED <<tx, base, work, failed>>

----------------------------------------------------------------------------
Addresses == UNION {{<<d, m>> : m \in ModelsOf[d]} : d \in Definitions}
RepoKeys == {repo_primary_key(i) : i \in Items}

Next ==
  \/ write_transaction
  \/ commit
  \/ rollback
  \/ \E i \in Items, topics \in TopicLists :
       \/ insert(repo_insert(i, topics))
       \/ insert(def_insert(i, rekey(topics, i.def)))
       \/ insert(model_insert(i, rekey(rekey(topics, i.def), i.model)))
  \/ \E address \in Addresses, key \in RepoKeys :
       \/ delete(repo_delete(address, key))
       \/ address[1] = key[1] /\ delete(def_delete(address[1], address[2], Tail(key)))
  \/ \E key \in RepoKeys : get(key)

Spec == Init /\ [][Next]_vars

----------------------------------------------------------------------------
(* Properties.                                                             *)

\* The cells a table of the schema can have: each scope's own topics, keyed by
\* the primary key of that scope's level.
Cells ==
  UNION {
    {<<<<>>, t, repo_primary_key(i)>> : t \in Range(RepoTopics)}
      \cup {<<<<i.def>>, t, def_primary_key(i)>> : t \in Range(DefTopics[i.def])}
      \cup {<<<<i.def, i.model>>, t, <<i.id>>>> : t \in Range(ModelTopics[i.model]) \cup {Primary}}
    : i \in Items}

\* Every row is in a table its scope declares, under a key of that scope.
TypeOK ==
  /\ tx \in {"idle", "write"}
  /\ \A store \in {base, work} : DOMAIN store \subseteq Cells /\ Range(store) \subseteq Contents
  /\ failed \in BOOLEAN

\* As long as no call has failed, a model's topic rows are the rows of records
\* that are there: a delete takes every topic's row with the record, whichever
\* level it came through.  The rows of outer scopes are not taken.
ModelTopicsHaveRecords ==
  ~failed => \A store \in {base, work} : \A c \in DOMAIN store :
    Len(c[1]) = 2 => <<c[1], Primary, c[3]>> \in DOMAIN store

RecordOf(c) == LET path == c[1] \o c[3] IN <<Front(path), Primary, <<Last(path)>>>>

\* A row appears or changes, at any level, only in a call that leaves the row's
\* own record there with the content the row tells, unless that call fails.
RowsTellTheirRecord ==
  [][\A c \in DOMAIN work' :
       (tx = "write" /\ ret' = "ok" /\ (c \notin DOMAIN work \/ work'[c] # work[c]))
         => RecordOf(c) \in DOMAIN work' /\ work'[RecordOf(c)] = work'[c]]_vars

\* A delete whose address and key name different variants, be it at the
\* repository's or the definition's level, leaves the rows of both.
MisroutedDeletesChangeNothing ==
  [][\A address \in Addresses, key \in RepoKeys :
       (address # Front(key) /\ delete(repo_delete(address, key))) => UNCHANGED work]_vars

TopicPaths == {c[1] \o <<c[2]>> : c \in Cells}
TopicSets == {Range(topics) : topics \in TopicLists}

Book == INSTANCE TopicBook WITH
  Records <- RepoKeys, Own <- TopicPaths, Asks <- TopicSets

\* What happens to the rows is what happens to the book: the rows a call leaves
\* are those some insert at some level fills, a delete empties one model's cells
\* and only those, a call that fails leaves some part of one such call's work
\* staged and nothing else, and between transactions nothing changes.
ImplementsTopicBook == Book!Spec

\* What a call does, it does for its own arguments: an insert at a level writes
\* the content of its value to the record and to the rows of every topic asked
\* for at that level and the levels below, and of no other, a delete empties its
\* key's cells or is refused for its address, and a get tells its key's record.
CallsActOnTheirArguments ==
  [][UNCHANGED <<tx, base>> =>
       /\ \A i \in Items, topics \in TopicLists :
            LET path == repo_primary_key(i)
                asked == Range(topics)
            IN  /\ insert(repo_insert(i, topics)) => Book!Insert(0, path, asked, i.content)
                /\ insert(def_insert(i, rekey(topics, i.def)))
                     => Book!Insert(1, path, asked, i.content)
                /\ insert(model_insert(i, rekey(rekey(topics, i.def), i.model)))
                     => Book!Insert(2, path, asked, i.content)
       /\ \A address \in Addresses, key \in RepoKeys :
            (\/ delete(repo_delete(address, key))
             \/ address[1] = key[1] /\ delete(def_delete(address[1], address[2], Tail(key))))
              => IF address = Front(key) THEN Book!Delete(key) ELSE Book!Misrouted
       /\ \A key \in RepoKeys : get(key) => Book!Get(key)]_vars
=============================================================================
