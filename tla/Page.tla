-------------------------------- MODULE Page --------------------------------
(***************************************************************************)
(* The pages of one site, from loading to reloading, over the glue: how a  *)
(* page finds and loads its wasm, which identity it has, and the handles   *)
(* of the Node and the Subscription.  What a page shows is in Gui, what    *)
(* becomes of the objects and closures it passes to wasm in JsClosure.     *)
(***************************************************************************)
EXTENDS WasmStrings

CONSTANTS
  Tabs,
  Variants,                \* the variants that bundle.mjs puts on the site
  Secrets,                 \* secret keys of endpoints
  Strings,                 \* what the user may type for a ticket or API secret
  Nodes,                   \* bound: Nodes of one page, the leaked ones included
  None

VARIABLES
  variant,                 \* variant[t]: what tab t is for
  path,                    \* path[t]: location.pathname, split at the slashes
  pc,                      \* pc[t]: how far the page is
  response,                \* response[t]: what the server sent for the wasm file
  stored,                  \* stored[k]: localStorage, under the key k:secret
  arg,                     \* arg[t]: what Node.spawn was called with
  node,                    \* node[t]: the Node behind node, or None
  current,                 \* current[t]: null, or a handle with or without pointer
  connected,               \* the tabs whose connectedTicket is set
  rust,                    \* rust[t][n]: the Node n, in Rust
  busy,                    \* busy[t]: the Nodes that a running set_threshold borrows
  secret,                  \* secret[t]: the identity of the tab's last Node
  faults                   \* what went wrong at the border of wasm

loadVars == <<path, response, arg>>
nodeVars == <<node, current, connected, rust, busy, secret>>
vars     == <<variant, pc, stored, loadVars, nodeVars, faults>>

Response == [ok : BOOLEAN, mime : BOOLEAN, valid : BOOLEAN]  \* mime: application/wasm

\* A variant is named after its file in variants/, and index.html is a page.
ASSUME PageAssumption ==
  /\ Variants \cap {"", "index.html"} = {}
  /\ None \notin Secrets \cup Nodes \cup Response
  /\ Strings \subseteq Seq(1 .. 3)

\* dist/<name>/, with index.html and wasm/ in it.
Dist(v) == <<"", v, "">>

\* How a server may let the browser get at dist/<name>/index.html.
Addresses(v) == {<<"", v>>, <<"", v, "">>, <<"", v, "index.html">>}

\* Mutant: one namespace for all.
NSShared(p) == "smart-fan"

\* Mutant: index.html is taken for the name of a variant.
NSWhole(p) == Last(IF Last(p) = "" THEN Front(p) ELSE p)

\* The namespace of a page: its last segment, unless it is the root of the site.
NS(p) ==
  LET name == Last(IF Last(p) \in {"", "index.html"} THEN Front(p) ELSE p)
  IN IF name = "" THEN "smart-fan" ELSE name

Namespaces == { NS(p) : p \in UNION { Addresses(v) : v \in Variants } }

\* Mutant: a path without a slash at its end is used as it is.
DirBare(p) == IF Last(p) = "" THEN p ELSE Append(Front(p), "")

\* The directory that the wasm is imported from.
Dir(p) == IF Last(p) = "" THEN p
          ELSE IF Last(p) = "index.html" THEN Append(Front(p), "")
          ELSE Append(p, "")

Init ==
  /\ variant \in [Tabs -> Variants]
  /\ path = [t \in Tabs |-> <<>>]
  /\ pc = [t \in Tabs |-> "closed"]
  /\ response = [t \in Tabs |-> None]
  /\ stored = [k \in Namespaces |-> None]
  /\ arg = [t \in Tabs |-> None]
  /\ node = [t \in Tabs |-> None]
  /\ current = [t \in Tabs |-> "null"]
  /\ connected = {}
  /\ rust = [t \in Tabs |-> [n \in Nodes |-> "none"]]
  /\ busy = [t \in Tabs |-> {}]
  /\ secret = [t \in Tabs |-> None]
  /\ faults = {}

-----------------------------------------------------------------------------
(* Loading.                                                                *)

\* The page is opened or loaded again.
Open(t) ==
  /\ pc[t] = "closed"
  /\ \E p \in Addresses(variant[t]) : path' = [path EXCEPT ![t] = p]
  /\ pc' = [pc EXCEPT ![t] = "import"]
  /\ UNCHANGED <<variant, response, stored, arg, nodeVars, faults>>

\* The glue is imported: it is where Dir says, or the page has failed to start.
Import(t) ==
  /\ pc[t] = "import"
  /\ pc' = [pc EXCEPT ![t] = IF Dir(path[t]) = Dist(variant[t]) THEN "fetch" ELSE "unloaded"]
  /\ UNCHANGED <<variant, stored, loadVars, nodeVars, faults>>

\* The response of a server that cannot be reached.
Rejected == [ok |-> FALSE, mime |-> FALSE, valid |-> FALSE]

\* The server answers init's fetch.  A browser without instantiateStreaming goes
\* on with the bytes.  If the fetch is rejected init fails.
Fetch(t) ==
  /\ pc[t] = "fetch"
  /\ \/ /\ \E r \in Response : response' = [response EXCEPT ![t] = r]
        /\ \E p \in {"stream", "bytes"} : pc' = [pc EXCEPT ![t] = p]
     \/ /\ response' = [response EXCEPT ![t] = Rejected]
        /\ pc' = [pc EXCEPT ![t] = "unloaded"]
  /\ UNCHANGED <<variant, path, stored, arg, nodeVars, faults>>

\* Mutant: there is no second attempt.
StreamOnly(t) ==
  /\ pc[t] = "stream"
  /\ LET r == response[t] IN
       pc' = [pc EXCEPT ![t] = IF r.ok /\ r.mime /\ r.valid THEN "ready" ELSE "unloaded"]
  /\ UNCHANGED <<variant, stored, loadVars, nodeVars, faults>>

\* instantiateStreaming insists on the MIME type.  If only that was wrong the
\* bytes are taken instead, else the error is thrown again.
Stream(t) ==
  /\ pc[t] = "stream"
  /\ LET r == response[t] IN
       pc' = [pc EXCEPT ![t] = IF r.ok /\ r.mime /\ r.valid THEN "ready"
                               ELSE IF r.ok /\ ~r.mime THEN "bytes"
                               ELSE "unloaded"]
  /\ UNCHANGED <<variant, stored, loadVars, nodeVars, faults>>

\* WebAssembly.instantiate, whatever the status of the response.
Instantiate(t) ==
  /\ pc[t] = "bytes"
  /\ pc' = [pc EXCEPT ![t] = IF response[t].valid THEN "ready" ELSE "unloaded"]
  /\ UNCHANGED <<variant, stored, loadVars, nodeVars, faults>>

Close(t) ==
  /\ pc[t] # "closed"
  /\ path' = [path EXCEPT ![t] = <<>>]
  /\ pc' = [pc EXCEPT ![t] = "closed"]
  /\ response' = [response EXCEPT ![t] = None]
  /\ arg' = [arg EXCEPT ![t] = None]
  /\ node' = [node EXCEPT ![t] = None]
  /\ current' = [current EXCEPT ![t] = "null"]
  /\ connected' = connected \ {t}
  /\ rust' = [rust EXCEPT ![t] = [n \in Nodes |-> "none"]]
  /\ busy' = [busy EXCEPT ![t] = {}]
  /\ UNCHANGED <<variant, stored, secret, faults>>

-----------------------------------------------------------------------------
(* The Node and the Subscription.                                          *)

Hex == <<1, 1>>                      \* secret keys are written in ASCII

Fault(name, fine) == IF fine THEN {} ELSE {name}

\* Node.spawn(localStorage.getItem(SECRET_KEY)), up to its await.
CallSpawn(t) ==
  LET s == stored[NS(path[t])] IN
    /\ arg' = [arg EXCEPT ![t] = s]
    /\ \E view \in Views : \E p \in passString(Hex, view) :
         faults' = faults \cup Fault("string", s # None => Arrives(Hex, p))

\* init is done.
Boot(t) ==
  /\ pc[t] = "ready"
  /\ pc' = [pc EXCEPT ![t] = "spawn"]
  /\ response' = [response EXCEPT ![t] = None]
  /\ CallSpawn(t)
  /\ UNCHANGED <<variant, path, stored, nodeVars>>

\* connect, past its early return: a Subscription that is there is freed first.
\* A method of a handle without pointer throws.
Subscribe(t, n, before) ==
  /\ current' = [current EXCEPT ![t] = "held"]
  /\ connected' = connected \cup {t}
  /\ \E ticket \in Strings, view \in Views : \E p \in passString(ticket, view) :
       faults' = before \cup Fault("string", Arrives(ticket, p))
                        \cup Fault("handle", current[t] # "freed" /\ n # None)

\* The endpoint is bound, with the key that was passed or with a new one, which
\* is stored.  After reconnectFresh, or with a ticket in the URL, the page
\* connects.
SpawnDone(t) ==
  /\ pc[t] \in {"spawn", "respawn"}
  /\ pc' = [pc EXCEPT ![t] = "up"]
  /\ \E s \in Secrets :
       /\ IF arg[t] # None THEN s = arg[t]
          ELSE /\ \A k \in Namespaces : stored[k] # s
               /\ \A u \in Tabs : s \notin {secret[u], arg[u]}
       /\ secret' = [secret EXCEPT ![t] = s]
       /\ stored' = [stored EXCEPT ![NS(path[t])] = s]
  /\ arg' = [arg EXCEPT ![t] = None]
  /\ \E n \in Nodes :
       /\ rust[t][n] = "none"
       /\ rust' = [rust EXCEPT ![t][n] = "live"]
       /\ node' = [node EXCEPT ![t] = n]
       /\ LET before == faults \cup Fault("string", \A view \in Views : ReturnsWhole(view)) IN
            \/ Subscribe(t, n, before)
            \/ faults' = before /\ UNCHANGED <<current, connected>>
  /\ UNCHANGED <<variant, path, response, busy>>

\* There is no second attempt.
SpawnFails(t) ==
  /\ pc[t] \in {"spawn", "respawn"}
  /\ pc' = [pc EXCEPT ![t] = "stopped"]
  /\ arg' = [arg EXCEPT ![t] = None]
  /\ UNCHANGED <<variant, path, response, stored, nodeVars, faults>>

\* The user connects, for the first time or to another device.
Connect(t) ==
  /\ pc[t] = "up"
  /\ Subscribe(t, node[t], faults)
  /\ UNCHANGED <<variant, pc, stored, loadVars, node, rust, busy, secret>>

\* The slider is released.  A second call while one is under way borrows the
\* Node as the first one does, and is left out.
SetThreshold(t) ==
  /\ pc[t] = "up"
  /\ t \in connected
  /\ node[t] \notin busy[t]
  /\ busy' = [busy EXCEPT ![t] = @ \cup {node[t]}]
  /\ \E ticket \in Strings, key \in Strings, view \in Views :
       \E p \in passTwo(ticket, key, view) :
         faults' = faults \cup Fault("string", p.first /\ p.second)
                          \cup Fault("handle", node[t] # None)
  /\ UNCHANGED <<variant, pc, stored, loadVars, node, current, connected, rust, secret>>

\* The promise of set_threshold is settled.
SetDone(t, n) ==
  /\ n \in busy[t]
  /\ busy' = [busy EXCEPT ![t] = @ \ {n}]
  /\ UNCHANGED <<variant, pc, stored, loadVars, node, current, connected, rust, secret, faults>>

\* Mutant: only the variable is reset.
ForgetNode(t) == UNCHANGED rust

\* Node.free: Rust does not take back a Node that a call has borrowed.  It
\* throws, the page looks away, and the pointer is gone.
FreeNode(t) ==
  rust' = [rust EXCEPT ![t][node[t]] = IF node[t] \in busy[t] THEN "lost" ELSE "none"]

\* Mutant: the page holds on to a Subscription that it has freed.
ForegroundKeepsHandle(t) ==
  /\ pc[t] = "up"
  /\ t \in connected
  /\ current' = [current EXCEPT ![t] = "freed"]
  /\ FreeNode(t)
  /\ node' = [node EXCEPT ![t] = None]
  /\ connected' = connected \ {t}
  /\ pc' = [pc EXCEPT ![t] = "respawn"]
  /\ CallSpawn(t)
  /\ UNCHANGED <<variant, path, response, stored, busy, secret>>

\* Mutant: a Node that is spawned again is a new one.
ForegroundAnew(t) ==
  /\ pc[t] = "up"
  /\ t \in connected
  /\ current' = [current EXCEPT ![t] = "null"]
  /\ FreeNode(t)
  /\ node' = [node EXCEPT ![t] = None]
  /\ connected' = connected \ {t}
  /\ pc' = [pc EXCEPT ![t] = "respawn"]
  /\ UNCHANGED <<variant, loadVars, stored, busy, secret, faults>>

\* reconnectFresh up to its await.
Foreground(t) ==
  /\ pc[t] = "up"
  /\ t \in connected
  /\ current' = [current EXCEPT ![t] = "null"]
  /\ FreeNode(t)
  /\ node' = [node EXCEPT ![t] = None]
  /\ connected' = connected \ {t}
  /\ pc' = [pc EXCEPT ![t] = "respawn"]
  /\ CallSpawn(t)
  /\ UNCHANGED <<variant, path, response, stored, busy, secret>>

Next ==
  \E t \in Tabs :
    \/ Open(t) \/ Import(t) \/ Fetch(t) \/ Stream(t) \/ Instantiate(t) \/ Close(t)
    \/ Boot(t) \/ SpawnDone(t) \/ SpawnFails(t)
    \/ Connect(t) \/ SetThreshold(t) \/ Foreground(t)
    \/ \E n \in Nodes : SetDone(t, n)

Spec == Init /\ [][Next]_vars

-----------------------------------------------------------------------------
TypeOK ==
  /\ variant \in [Tabs -> Variants]
  /\ pc \in [Tabs -> {"closed", "import", "fetch", "stream", "bytes", "ready", "unloaded",
                      "spawn", "respawn", "up", "stopped"}]
  /\ \A t \in Tabs : path[t] \in Addresses(variant[t]) \cup {<<>>}
  /\ response \in [Tabs -> Response \cup {None}]
  /\ stored \in [Variants -> Secrets \cup {None}]
  /\ arg \in [Tabs -> Secrets \cup {None}]
  /\ node \in [Tabs -> Nodes \cup {None}]
  /\ current \in [Tabs -> {"null", "held", "freed"}]
  /\ connected \subseteq Tabs
  /\ rust \in [Tabs -> [Nodes -> {"none", "live", "lost"}]]
  /\ busy \in [Tabs -> SUBSET Nodes]
  /\ secret \in [Tabs -> Secrets \cup {None}]

\* A page that the server delivers starts, whether its address ends with a slash
\* or not, whatever MIME type the wasm has and whether or not the browser can
\* stream it.
StartsIfServed ==
  \A t \in Tabs : pc[t] = "unloaded" =>
    response[t] # None /\ ~(response[t].ok /\ response[t].valid)

\* Variants on one site never share an endpoint identity, however their pages
\* are addressed, loaded again and spawned again.
VariantsApart ==
  \A t, u \in Tabs : secret[t] = secret[u] /\ secret[t] # None => variant[t] = variant[u]

\* A page comes back from a reload or a freeze with the identity it had, or with
\* the one it found stored, and that only when another page of its variant has
\* come up, which may have stored its own; it never gets a new one.
SameIdentity ==
  [][ \A t \in Tabs : secret[t] \notin {None, secret'[t]} =>
        /\ secret'[t] = arg[t]
        /\ \E u \in Tabs \ {t} : variant[u] = variant[t] /\ secret[u] # None ]_vars

\* The Nodes that Rust keeps alive for a page, apart from the one the page has.
LeftBehind(t) == {n \in Nodes : rust[t][n] # "none"} \ {node[t]}

\* The Node of a page is never taken away from it.  However often the page is
\* frozen and spawns another one, no step leaves a Node behind but the page's
\* own, and that only if a set_threshold is using it, so that its free throws.
TornDown ==
  /\ [](\A t \in Tabs : node[t] # None => rust[t][node[t]] = "live")
  /\ [][\A t \in Tabs : LeftBehind(t)' \subseteq LeftBehind(t) \cup (busy[t] \cap {node[t]})]_vars

\* Every call gets across the border of wasm: no method is called through a
\* handle that was freed or is null, and every string arrives whole, in and out,
\* wherever the memory grows in between.
CallsArrive == faults = {}

=============================================================================
