---------------------------- MODULE Bookkeeping ----------------------------
(***************************************************************************)
(* Registrations: Scroom::Bookkeeping::Map (bookkeepingimpl.hh), as it is  *)
(* used by Scroom::Utils::Observable (observable.hh).                      *)
(*                                                                         *)
(* A key is in the map as long as someone has its token.  The map has weak *)
(* pointers to values; a value is kept alive by the token, and has a weak  *)
(* pointer back to it.  Destroying the token, on any thread, takes the key *)
(* out of the map, but not if it was given a new token in the meantime.    *)
(*                                                                         *)
(* A step is what happens with the mutex of the map locked, or between two *)
(* such steps.                                                             *)
(***************************************************************************)
EXTENDS FiniteSets

CONSTANTS
    Threads,
    Keys,    \* the observers
    Tokens,  \* the tokens that will ever be created
    Values,  \* the values that will ever be created
    Null     \* a null pointer, or not in the map

ASSUME NullAssumption == Null \notin Threads \cup Keys \cup Tokens \cup Values

VARIABLES
    entry,    \* the map: the value of each key, or Null
    owner,    \* ValueType::token, of each value
    value,    \* ValueType::value: whether it has a Registration
    key,      \* MapTokenImpl::k, of each token; Null until it is created
    content,  \* TokenImpl::l: the value that a token keeps alive, or Null
    refs,     \* the threads that have a strong reference to a token
    mapMut,   \* the thread that has locked the map for more than one step
    where,    \* what each thread is doing
    tok       \* the token that it is doing that to

bookVars == <<entry, owner, value, key, content, refs, mapMut, where, tok>>

BookInit ==
    /\ entry = [k \in Keys |-> Null]
    /\ owner = [v \in Values |-> Null]
    /\ value = [v \in Values |-> FALSE]
    /\ key = [a \in Tokens |-> Null]
    /\ content = [a \in Tokens |-> Null]
    /\ refs = [a \in Tokens |-> {}]
    /\ mapMut = Null
    /\ where = [t \in Threads |-> "idle"]
    /\ tok = [t \in Threads |-> Null]

\* Weak pointers that can be locked.
LiveToken(a) == a # Null /\ refs[a] # {}
LiveValue(v) == v # Null /\ \E a \in Tokens : content[a] = v

\* Objects that have not been created yet.  Which of them is next does not matter.
OneOf(S)  == IF S = {} THEN {} ELSE {CHOOSE x \in S : TRUE}
NewTokens == OneOf({a \in Tokens : key[a] = Null})
NewValues == OneOf({v \in Values : owner[v] = Null})

Goto(t, p, a) ==
    /\ where' = [where EXCEPT ![t] = p]
    /\ tok' = [tok EXCEPT ![t] = a]

-----------------------------------------------------------------------------
(* registerObserver().                                                     *)

\* reReserve(): the token that the key has already ...
ReReserveOld(t, k) ==
    /\ where[t] = "idle"
    /\ mapMut = Null
    /\ LiveValue(entry[k])
    /\ LiveToken(owner[entry[k]])
    /\ refs' = [refs EXCEPT ![owner[entry[k]]] = @ \cup {t}]
    /\ Goto(t, "get", owner[entry[k]])
    /\ UNCHANGED <<entry, owner, value, key, content, mapMut>>

Owned(v, a) == [owner EXCEPT ![v] = a]

\* ... or a new one, for the value that is there, if it still is.
ReReserveNew(t, k) ==
    /\ where[t] = "idle"
    /\ mapMut = Null
    /\ LiveValue(entry[k]) => ~LiveToken(owner[entry[k]])
    /\ \E a \in NewTokens :
       \E v \in IF LiveValue(entry[k]) THEN {entry[k]} ELSE NewValues :
          /\ entry' = [entry EXCEPT ![k] = v]
          /\ owner' = Owned(v, a)
          /\ key' = [key EXCEPT ![a] = k]
          /\ content' = [content EXCEPT ![a] = v]
          /\ refs' = [refs EXCEPT ![a] = {t}]
          /\ Goto(t, "get", a)
    /\ UNCHANGED <<value, mapMut>>

IsRegistered(t) == value[entry[key[tok[t]]]]

\* get(): reuse the Registration of an earlier registration ...
GetRegistration(t) ==
    /\ where[t] = "get"
    /\ mapMut = Null
    /\ IF IsRegistered(t)
       THEN Goto(t, "idle", Null)
       ELSE Goto(t, "set", tok[t])
    /\ UNCHANGED <<entry, owner, value, key, content, refs, mapMut>>

\* ... or make one, and set() it.
SetRegistration(t) ==
    /\ where[t] = "set"
    /\ mapMut = Null
    /\ value' = [value EXCEPT ![entry[key[tok[t]]]] = TRUE]
    /\ Goto(t, "idle", Null)
    /\ UNCHANGED <<entry, owner, key, content, refs, mapMut>>

-----------------------------------------------------------------------------
(* Dropping a token.                                                       *)

Drop(t, a) ==
    /\ where[t] = "idle"
    /\ t \in refs[a]
    /\ refs' = [refs EXCEPT ![a] = @ \ {t}]
    /\ IF refs[a] = {t} THEN Goto(t, "removing", a) ELSE UNCHANGED <<where, tok>>
    /\ UNCHANGED <<entry, owner, value, key, content, mapMut>>

WrongIsOther(v) ==  \* any owner will do
    FALSE

\* The value has a token that is not the one being destroyed: that one cannot
\* be locked any more.
IsOther(v) == LiveValue(v) /\ LiveToken(owner[v])

WrongRemoved(k) ==  \* leaves the key, and its dangling pointer
    entry

Removed(k) == [entry EXCEPT ![k] = Null]

\* ~MapTokenImpl() calls remove().
Remove(t) ==
    /\ where[t] = "removing"
    /\ mapMut = Null
    /\ ~IsOther(entry[key[tok[t]]])
    /\ entry' = Removed(key[tok[t]])
    /\ Goto(t, "freeing", tok[t])
    /\ UNCHANGED <<owner, value, key, content, refs, mapMut>>

\* remove() leaves the key alone if it has another token.  To see that, it
\* takes a reference to that token.
KeepOther(t) ==
    /\ where[t] = "removing"
    /\ mapMut = Null
    /\ IsOther(entry[key[tok[t]]])
    /\ mapMut' = t
    /\ refs' = [refs EXCEPT ![owner[entry[key[tok[t]]]]] = @ \cup {t}]
    /\ Goto(t, "comparing", tok[t])
    /\ UNCHANGED <<entry, owner, value, key, content>>

MapUnlocked(t) == Null

\* It drops that reference before it unlocks the mutex.  If it was the last,
\* the other token is destroyed, and remove() waits for the mutex.
DropOther(t) ==
    /\ where[t] = "comparing"
    /\ LET b == owner[entry[key[tok[t]]]] IN
          /\ refs' = [refs EXCEPT ![b] = @ \ {t}]
          /\ IF refs[b] = {t}
             THEN Goto(t, "stuck", b) /\ UNCHANGED mapMut
             ELSE Goto(t, "freeing", tok[t]) /\ mapMut' = MapUnlocked(t)
    /\ UNCHANGED <<entry, owner, value, key, content>>

\* ~TokenImpl() destroys the list.
Free(t) ==
    /\ where[t] = "freeing"
    /\ content' = [content EXCEPT ![tok[t]] = Null]
    /\ Goto(t, "idle", Null)
    /\ UNCHANGED <<entry, owner, value, key, refs, mapMut>>

-----------------------------------------------------------------------------
Step(t) ==
    GetRegistration(t) \/ SetRegistration(t) \/ Remove(t) \/ KeepOther(t) \/ DropOther(t) \/ Free(t)

BookNext ==
    \E t \in Threads :
       \/ Step(t)
       \/ \E k \in Keys : ReReserveOld(t, k) \/ ReReserveNew(t, k)
       \/ \E a \in Tokens : Drop(t, a)

BookSpec == BookInit /\ [][BookNext]_bookVars

\* A thread finishes what it started.
BookFairSpec == BookSpec /\ \A t \in Threads : WF_bookVars(Step(t))

-----------------------------------------------------------------------------
(* Properties.                                                             *)

BookTypeOK ==
    /\ entry \in [Keys -> Values \cup {Null}]
    /\ owner \in [Values -> Tokens \cup {Null}]
    /\ value \in [Values -> BOOLEAN]
    /\ key \in [Tokens -> Keys \cup {Null}]
    /\ content \in [Tokens -> Values \cup {Null}]
    /\ refs \in [Tokens -> SUBSET Threads]
    /\ mapMut \in Threads \cup {Null}
    /\ where \in [Threads -> {"idle", "get", "set", "removing", "comparing", "freeing", "stuck"}]
    /\ tok \in [Threads -> Tokens \cup {Null}]
    /\ mapMut # Null => where[mapMut] \in {"comparing", "stuck"}

\* As long as somebody has a token, its key is in the map, with the value that
\* the token keeps alive, and the value knows the token: destroying an earlier
\* token of the same key does not harm it.  So a key has one token, however many
\* threads register it.
LiveTokenHasEntry ==
    \A a \in Tokens :
        refs[a] # {} => /\ key[a] # Null
                        /\ content[a] # Null
                        /\ entry[key[a]] = content[a]
                        /\ owner[content[a]] = a

\* An observer whose registerObserver() has returned is one of those that
\* getObservers() returns, until all tokens are dropped.
RegisteredIsObserved ==
    \A a \in Tokens, t \in Threads :
        t \in refs[a] /\ where[t] = "idle" => entry[key[a]] # Null /\ value[entry[key[a]]]

\* A key that nobody has a token of is not left behind in the map.
NoStaleEntries ==
    \A k \in Keys :
        entry[k] # Null =>
            \/ \E a \in Tokens : key[a] = k /\ refs[a] # {}
            \/ \E t \in Threads : where[t] \in {"removing", "stuck"} /\ key[tok[t]] = k

\* A registration holds until its token is dropped (bookkeeping.hh, observable.hh).
RegistrationHolds == LiveTokenHasEntry /\ RegisteredIsObserved

\* The map has nothing else (bookkeeping.hh, ~MapTokenImpl()).
MapIsClean == BookTypeOK /\ NoStaleEntries

\* "When the Observer destroys his Registration, he'll be unregistered."
\* (observable.hh)
DestroyedIsUnregistered ==
    \A k \in Keys :
        (\A a \in Tokens : key[a] = k => refs[a] = {})
            ~> (entry[k] = Null \/ \E a \in Tokens : key[a] = k /\ refs[a] # {})
=============================================================================
