--------------------------- MODULE StructureIndex ---------------------------
(***************************************************************************)
(* What the port of a structure index promises to its clients, whatever    *)
(* stands behind it.  A request names a content and the version of the      *)
(* provider its client saw; the first structure that is committed under     *)
(* this name was made by that version from that content, and every request  *)
(* of the name that succeeds is answered with it.                           *)
(***************************************************************************)
EXTENDS Naturals

CONSTANTS
  Client,
  Content,
  Draw,        \* what may differ between two structures of one content
  MaxVersion,  \* releases of the provider
  NoStructure

Version == 1..MaxVersion
Gone    == 0   \* the fingerprint of a provider that cannot be read

Op        == Content \X Version
Structure == [by : Version, of : Content, draw : Draw]

VARIABLES
  release,   \* the version of the provider that is installed
  readable,  \* whether its files can be read
  input,     \* the content of the source file
  committed, \* the structure of each name
  request

provider  == <<release, readable>>
indexVars == <<provider, input, committed, request>>

Fingerprint == IF readable THEN release ELSE Gone

RequestStatus == {"none", "success", "blocked", "failed"}

Request == [at : {"idle", "asked", "answered"}, content : Content,
            want : Version \cup {Gone}, result : Structure \cup {NoStructure},
            status : RequestStatus]

NoRequest(c) == [at |-> "idle", content |-> c, want |-> Gone,
                 result |-> NoStructure, status |-> "none"]

OpAsked(c) == <<request[c].content, request[c].want>>

IndexInit ==
  /\ release = 1 /\ readable = TRUE /\ input \in Content
  /\ committed = [op \in Op |-> NoStructure]
  /\ request = [c \in Client |-> NoRequest(input)]

Ask(c, x) ==
  /\ request[c].at # "asked"
  /\ request' = [request EXCEPT ![c] =
       [NoRequest(x) EXCEPT !.at = IF readable THEN "asked" ELSE "answered",
                            !.want = Fingerprint,
                            !.status = IF readable THEN "none" ELSE "blocked"]]
  /\ UNCHANGED <<provider, input, committed>>

Commit(c) ==
  /\ request[c].at = "asked" /\ committed[OpAsked(c)] = NoStructure
  /\ \E d \in Draw :
       committed' = [committed EXCEPT ![OpAsked(c)] =
         [by |-> request[c].want, of |-> request[c].content, draw |-> d]]
  /\ UNCHANGED <<provider, input, request>>

Reply(c, status, result) ==
  request' = [request EXCEPT ![c].at = "answered", ![c].status = status, ![c].result = result]

Succeed(c) ==
  /\ request[c].at = "asked" /\ committed[OpAsked(c)] # NoStructure
  /\ Reply(c, "success", committed[OpAsked(c)])
  /\ UNCHANGED <<provider, input, committed>>

\* An edited source, an exchanged provider, a lock, a time limit.
Refuse(c) ==
  /\ request[c].at = "asked"
  /\ \E s \in {"blocked", "failed"} : Reply(c, s, NoStructure)
  /\ UNCHANGED <<provider, input, committed>>

Vanish(c) ==
  /\ request' = [request EXCEPT ![c] = NoRequest(request[c].content)]
  /\ UNCHANGED <<provider, input, committed>>

\* A new release comes with a new fingerprint.
Upgrade ==
  /\ release < MaxVersion
  /\ release' = release + 1
  /\ readable' \in BOOLEAN
  /\ UNCHANGED <<input, committed, request>>

Unread ==
  /\ readable' = ~readable
  /\ UNCHANGED <<release, input, committed, request>>

Edit ==
  /\ \E x \in Content \ {input} : input' = x
  /\ UNCHANGED <<provider, committed, request>>

IndexNext ==
  \/ \E c \in Client :
       \/ \E x \in Content : Ask(c, x)
       \/ Commit(c) \/ Succeed(c) \/ Refuse(c) \/ Vanish(c)
  \/ Upgrade \/ Unread \/ Edit

IndexSpec == IndexInit /\ [][IndexNext]_indexVars
=============================================================================
