---------------------------- MODULE ResourceStore ----------------------------
(***************************************************************************)
(* What clients may expect of the methods: a store of resources, each with *)
(* a URL.  An answer tells what became of the request: what was stored can *)
(* be read, what was deleted is gone, what failed has touched nothing but  *)
(* what it named.                                                          *)
(***************************************************************************)
EXTENDS Naturals, SequencesExt

CONSTANTS
  Urls,
  Collection,  \* what the store has for a URL that stands for others
  BodyEnd      \* what is sent behind every body

VARIABLES
  store,   \* what the resources that exist hold
  reply    \* the last request and its answer

storeVars == <<store, reply>>

\* An empty item is taken and not stored: what has its name stays as it is.
Stores(item) == item.content # <<>>

\* One item of an upload: added to what is there, or put in its place.
Write(st, item) ==
  LET old == IF item.append /\ item.url \in DOMAIN st THEN st[item.url] ELSE <<>> IN
  IF ~Stores(item) THEN st
  ELSE [u \in DOMAIN st \cup {item.url} |-> IF u = item.url THEN old \o item.content
                                            ELSE st[u]]

\* All of them, in order.
Written(st, items) ==
  LET after[n \in 0..Len(items)] == IF n = 0 THEN st ELSE Write(after[n - 1], items[n])
  IN  after[Len(items)]

SameExcept(U) ==
  \A u \in Urls \ U :
    /\ u \in DOMAIN store <=> u \in DOMAIN store'
    /\ u \in DOMAIN store => store'[u] = store[u]

Resources == {u \in DOMAIN store : store[u] # Collection}

Good(code) == code \in 200..226

\* Looking changes nothing, and what is read is what is there, with the end of a body.
Look ==
  /\ reply'.method \notin {"POST", "DELETE"}
  /\ store' = store
  /\ reply'.status = 200 /\ reply'.url \in Resources =>
       reply'.content = store[reply'.url] \o BodyEnd

\* A script may be sent anything.
Run == reply'.method = "POST" /\ reply'.script /\ store' = store

\* 201: every item that is not empty is stored, in order.
Save ==
  /\ reply'.method = "POST" /\ reply'.status = 201
  /\ store' = Written(store, reply'.items)

\* An upload that fails may have changed what it named.
SaveFails ==
  /\ reply'.method = "POST" /\ ~Good(reply'.status)
  /\ SameExcept({reply'.items[i].url : i \in {j \in 1..Len(reply'.items) :
                                                Stores(reply'.items[j])}})

Delete ==
  /\ reply'.method = "DELETE" /\ reply'.status = 200
  /\ reply'.url \in DOMAIN store
  /\ store' = [u \in DOMAIN store \ {reply'.url} |-> store[u]]

DeleteFails ==
  /\ reply'.method = "DELETE" /\ ~Good(reply'.status)
  /\ store' = store

StoreInit == DOMAIN store \subseteq Urls

StoreNext == Look \/ Run \/ Save \/ SaveFails \/ Delete \/ DeleteFails

StoreSpec == StoreInit /\ [][StoreNext]_storeVars
=============================================================================
