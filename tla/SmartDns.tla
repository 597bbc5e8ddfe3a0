------------------------------ MODULE SmartDns ------------------------------
(***************************************************************************)
(* AI Mode's DNS split (smart_dns.rs): the engine, one for the process, that *)
(* each session's start fills in, and the way of a query for one of its      *)
(* domains.  The TUN bridge (tun.rs) reads a query, waits for the engine and *)
(* writes the reply back; every other query goes into the tunnel.            *)
(*                                                                          *)
(* A name is a model value.  The end of a DNS question is kept byte by byte, *)
(* because what the engine reads there decides which answers it takes.       *)
(***************************************************************************)
EXTENDS Naturals

CONSTANTS AntiSanction,  \* ANTI_SANCTION_DNS
          Default,       \* DEFAULT_DNS
          Plain,         \* resolvers the user may enter: plain ones,
          Encrypted,     \* and DoT or DoH ones
          Gemini,        \* names of GEMINI_DOMAINS, with their subdomains
          QTypes, Ids,
          None

Transports == {"masque", "warp_in_warp", "wireguard", "masque_in_masque"}

(* smart_dns, dns_servers_dot or _doh, smart_dns_servers *)
Options == [transport: Transports, ai: BOOLEAN, encrypted: SUBSET Encrypted,
            servers: SUBSET (Plain \cup Encrypted)]

VARIABLES session,         \* the options of the session whose bridge runs, or None
          engine,          \* SMART_DNS: "none", "here", or "orphan" when its sockets belong
                           \* to the runtime of a core run that is over
          user_resolvers,
          cache,           \* questions with a response that has not expired
          query,           \* what process_query works on, or None
          round,           \* whom it asks now: "user", "anti_sanction", "default"
          arrived,         \* servers of this round whose answer is there in time
          heard,           \* has any server answered this query in time
          reply            \* what the bridge wrote last, or None

engineState == <<engine, user_resolvers, cache>>
queryState == <<query, round, arrived, heard, reply>>
vars == <<session, engineState, queryState>>

-----------------------------------------------------------------------------
(* The start of a session.  set_resolvers is ignored before the engine is    *)
(* there, and a second init_smart_dns fails, so the lists of its session are *)
(* not pushed.                                                              *)
push_encrypted_resolvers(o) ==
    IF o.transport # "masque_in_masque" /\ o.encrypted # {} /\ engine # "none"
    THEN o.encrypted ELSE user_resolvers

SessionStarts(o) ==
    /\ session = None /\ session' = o
    /\ LET inits == o.ai /\ o.transport \in {"masque", "warp_in_warp"} /\ engine = "none" IN
       /\ engine' = IF inits THEN "here" ELSE engine
       /\ user_resolvers' = IF inits THEN o.servers ELSE push_encrypted_resolvers(o)
    /\ UNCHANGED <<cache, queryState>>

(* The session ends, and the core run may end with it: the next one has a    *)
(* runtime of its own.                                                      *)
SessionEnds ==
    /\ session # None /\ session' = None
    /\ engine' \in {engine} \cup (IF engine = "none" THEN {} ELSE {"orphan"})
    /\ query' = None /\ arrived' = {} /\ reply' = None /\ heard' = FALSE
    /\ UNCHANGED <<user_resolvers, cache, round>>

-----------------------------------------------------------------------------
(* What follows the name in a question of class IN: the root label, the type *)
(* and the class.                                                           *)
QuestionEnd(qtype) == <<0, qtype \div 256, qtype % 256, 0, 1>>

(* A server's answer repeats id and question of the query it was sent. *)
Answer(q) == [id |-> q.new_id, name |-> q.name, end |-> QuestionEnd(q.qtype)]

(* pos stands at the root label, and the type is read from pos + 2. *)
response_matches(resp, q) ==
    /\ resp.id = q.new_id
    /\ resp.name = q.name
    /\ resp.end[3] * 256 + resp.end[4] = q.qtype

-----------------------------------------------------------------------------
PlainUser == user_resolvers \cap Plain
Servers == CASE round = "user"          -> PlainUser
             [] round = "anti_sanction" -> AntiSanction
             [] round = "default"       -> Default

(* Nothing calls set_encrypted_resolvers, so has_encrypted() is false and     *)
(* plain servers are asked at once: the user's, if there are any.            *)
FirstRound == IF PlainUser # {} THEN "user" ELSE "anti_sanction"

(* process_query: a query for a Gemini name is answered from the cache or    *)
(* asked again under a new id; the bridge does nothing else meanwhile.       *)
BridgeReads ==
    /\ session # None /\ session.ai /\ engine # "none" /\ query = None
    /\ \E id, new_id \in Ids, name \in Gemini, qtype \in QTypes :
         IF <<name, qtype>> \in cache
         THEN /\ reply' = [code |-> "answer", id |-> id]
              /\ UNCHANGED <<query, round, arrived, heard>>
         ELSE /\ query' = [id |-> id, new_id |-> new_id, name |-> name, qtype |-> qtype]
              /\ round' = FirstRound /\ arrived' = {} /\ heard' = FALSE /\ reply' = None
    /\ UNCHANGED <<session, engineState>>

(* The answer of a server that was asked: the user's resolvers get sockets   *)
(* for the occasion, the built-in ones have the engine's.                    *)
Arrives ==
    /\ query # None
    /\ round = "user" \/ engine = "here"
    /\ \E s \in Servers \ arrived : arrived' = arrived \cup {s}
    /\ heard' = TRUE
    /\ UNCHANGED <<session, engineState, query, round, reply>>

Matching == {s \in arrived : response_matches(Answer(query), query)}

(* parallel_query has a result: it is cached, and returned as it came. *)
RoundWon ==
    /\ query # None /\ Matching # {}
    /\ cache' = cache \cup {<<query.name, query.qtype>>}
    /\ reply' = [code |-> "answer", id |-> query.new_id]
    /\ query' = None /\ arrived' = {}
    /\ UNCHANGED <<session, engine, user_resolvers, round, heard>>

(* Every task of the round is at its QUERY_TIMEOUT: the next list is asked,   *)
(* and after the last one the reply is an error.                             *)
RoundLost ==
    /\ query # None /\ Matching = {}
    /\ arrived' = {}
    /\ \/ round = "user" /\ round' = "anti_sanction" /\ UNCHANGED <<query, reply>>
       \/ round = "anti_sanction" /\ round' = "default" /\ UNCHANGED <<query, reply>>
       \/ /\ round = "default" /\ query' = None
          /\ reply' = [code |-> "SERVFAIL", id |-> query.new_id]
          /\ UNCHANGED round
    /\ UNCHANGED <<session, engineState, heard>>

CacheExpires ==
    /\ \E c \in cache : cache' = cache \ {c}
    /\ UNCHANGED <<session, engine, user_resolvers, queryState>>

Init ==
    /\ session = None /\ engine = "none" /\ user_resolvers = {} /\ cache = {}
    /\ query = None /\ round = "anti_sanction" /\ arrived = {} /\ heard = FALSE /\ reply = None

Next ==
    \/ \E o \in Options : SessionStarts(o)
    \/ SessionEnds \/ BridgeReads \/ Arrives \/ RoundWon \/ RoundLost \/ CacheExpires

Spec == Init /\ [][Next]_vars

-----------------------------------------------------------------------------
(* "Query multiple plain-UDP servers in parallel; first answer wins": the    *)
(* device is told SERVFAIL only when no server that was asked has answered   *)
(* the query in time.                                                       *)
FirstAnswerWins == (reply # None /\ heard) => reply.code # "SERVFAIL"
=============================================================================
