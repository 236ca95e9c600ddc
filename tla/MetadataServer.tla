--------------------------- MODULE MetadataServer ---------------------------
(***************************************************************************)
(* The ERC721 metadata server of go/erc721: servers are registered under a *)
(* path prefix, attached to a mux and bound to a contract, and then answer *)
(* requests in goroutines of their own while tokens are minted and burned. *)
(* A prefix is a number, as the mux attaches them in order.  A Server is   *)
(* copied when it is registered, but its slices of endpoints are shared:   *)
(* paths records the prefixes put in front of each definition's paths.  Of *)
(* an Image only the token ID in it is kept; one that the handler has set  *)
(* is left alone like one that was filled in before.                       *)
(***************************************************************************)
EXTENDS Integers, Sequences

CONSTANTS
    PathPrefixes, ServerDefs,   \* prefixes (numbers), and Server values
    ImageServers,           \* the definitions that have ImageEndpoints
    Clients,                \* requests in flight
    IDs,                    \* 2^256: token IDs are 0..IDs-1
    MetadataOf,             \* the object that a MetadataHandler returns for each ID
    Animated                \* the objects that have an AnimationURL

NoServer == "none"

ASSUME ERC721Assumption ==
    /\ PathPrefixes \subseteq Nat /\ NoServer \notin ServerDefs
    /\ IDs \in Nat \ {0}

VARIABLES
    servers,        \* the definition registered under each prefix, or NoServer
    paths,
    contract,       \* the prefixes whose Server has its Contract set
    attaching,      \* the prefixes that AttachServers() has still to attach
    mux,            \* the prefixes that are attached
    minted,         \* tokens of the contract that exist
    image,          \* the Image of each metadata object: an ID, or NoImage
    reqs            \* for each client, its request

registrationVars == <<servers, paths, contract, attaching, mux>>
erc721Vars == <<registrationVars, minted, image, reqs>>

NoImage == -1
TokenIDs == 0..IDs-1

\* Raw token IDs of requests: one that is no number, one below zero and one
\* too large included.
BadID == -2
RawIDs == -2..IDs

\* The endpoint of a request; UnhandledImage is an ImageEndpoint without Handler.
Kinds == {"Metadata", "Image", "UnhandledImage"}

\* existed: the token existed at some time between the request and its check.
NoRequest == [at |-> "idle", prefix |-> 0, kind |-> "none", raw |-> 0, existed |-> FALSE,
              code |-> 0, body |-> "none", img |-> NoImage]

ServerInit721 ==
    /\ servers = [p \in PathPrefixes |-> NoServer]
    /\ paths = [d \in ServerDefs |-> <<>>]
    /\ contract = {} /\ attaching = {} /\ mux = {}
    /\ minted = {}
    /\ image = [o \in {MetadataOf[t] : t \in TokenIDs} |-> NoImage]
    /\ reqs = [c \in Clients |-> NoRequest]

\* registerServer().  Its errors are fatal to the binary: the prefix is taken,
\* or the Server has a Contract already.
registerServer(p, d) ==
    /\ servers[p] = NoServer
    /\ paths' = [paths EXCEPT ![d] = <<p>> \o @]
    /\ servers' = [servers EXCEPT ![p] = d]
    /\ UNCHANGED <<contract, attaching, mux, minted, image, reqs>>

AttachServers ==
    /\ attaching = {} /\ mux = {}
    /\ attaching' = {p \in PathPrefixes : servers[p] # NoServer}
    /\ UNCHANGED <<servers, paths, contract, mux, minted, image, reqs>>

First(ps) == CHOOSE p \in ps : \A o \in ps : p <= o

\* bindToContract() in the next iteration: "none" when there is no address,
\* "bound", or an error.  The Contract is set before it is known to be right.
AttachNext(outcome) ==
    /\ attaching # {}
    /\ LET p == First(attaching) IN
         /\ \/ outcome = "none" /\ UNCHANGED contract
            \/ outcome \in {"bound", "notERC721"} /\ contract' = contract \cup {p}
            \/ outcome = "failed" /\ UNCHANGED contract
         /\ IF outcome \in {"none", "bound"}
            THEN attaching' = attaching \ {p} /\ mux' = mux \cup {p}
            ELSE attaching' = {} /\ UNCHANGED mux
    /\ UNCHANGED <<servers, paths, minted, image, reqs>>

\* The ABI and FromBig() reduce a raw ID modulo 2^256.
TokenOf(raw) == raw % IDs
Overflows(raw) == raw >= IDs

\* External: the contract's tokens come and go.
MintToken(t) ==
    /\ t \notin minted
    /\ minted' = minted \cup {t}
    /\ reqs' = [c \in Clients |->
                   IF reqs[c].at = "check" /\ TokenOf(reqs[c].raw) = t
                   THEN [reqs[c] EXCEPT !.existed = TRUE] ELSE reqs[c]]
    /\ UNCHANGED <<registrationVars, image>>
BurnToken(t) ==
    /\ t \in minted
    /\ minted' = minted \ {t}
    /\ UNCHANGED <<registrationVars, image, reqs>>

\* A request is routed to an endpoint.
Request(c, p, kind, raw) ==
    /\ reqs[c].at = "idle" /\ p \in mux
    /\ kind # "Metadata" => servers[p] \in ImageServers
    /\ reqs' = [reqs EXCEPT ![c] = [NoRequest EXCEPT !.at = "check", !.prefix = p,
                                    !.kind = kind, !.raw = raw,
                                    !.existed = TokenOf(raw) \in minted]]
    /\ UNCHANGED <<registrationVars, minted, image>>

Respond(c, code, body) ==
    reqs' = [reqs EXCEPT ![c] = [@ EXCEPT !.at = "responded", !.code = code, !.body = body]]

\* A nil Handler: nothing else is looked at.
UnsupportedMethod(c) ==
    /\ reqs[c].at = "check" /\ reqs[c].kind = "UnhandledImage"
    /\ Respond(c, 400, "unsupported")
    /\ UNCHANGED <<registrationVars, minted, image>>

\* Mutant of tokenID: the contract is not asked.
tokenIDUnchecked(c) ==
    /\ reqs[c].at = "check" /\ reqs[c].kind # "UnhandledImage"
    /\ IF reqs[c].raw = BadID \/ Overflows(reqs[c].raw) THEN Respond(c, 500, "hash")
       ELSE reqs' = [reqs EXCEPT ![c].at = "handle"]
    /\ UNCHANGED <<registrationVars, minted, image>>

\* tokenID(): the ID is parsed, then the contract says whether the token
\* exists; any failure of the call means that it does not.
tokenID(c) ==
    /\ reqs[c].at = "check" /\ reqs[c].kind # "UnhandledImage"
    /\ LET r == reqs[c] IN
         \/ r.raw = BadID /\ Respond(c, 500, "hash")
         \/ r.raw # BadID /\ r.prefix \in contract /\ Respond(c, 404, "notMinted")
         \/ /\ r.raw # BadID
            /\ r.prefix \notin contract \/ TokenOf(r.raw) \in minted
            /\ IF Overflows(r.raw) THEN Respond(c, 500, "hash")
               ELSE reqs' = [reqs EXCEPT ![c].at = "handle"]
    /\ UNCHANGED <<registrationVars, minted, image>>

\* The handler returns an error: 500, whatever its code.  httpErrHandler()
\* shows the client only a hash of it.
HandlerFails(c) ==
    /\ reqs[c].at = "handle"
    /\ Respond(c, 500, "hash")
    /\ UNCHANGED <<registrationVars, minted, image>>

\* metadata(): its handler's code is dropped.  An empty Image is filled in, in
\* the object itself, with the first ImageEndpoint if there is one, unless the
\* object has an AnimationURL.
MetadataHandled(c) ==
    /\ reqs[c].at = "handle" /\ reqs[c].kind = "Metadata"
    /\ LET t == TokenOf(reqs[c].raw)
           o == MetadataOf[t]
           fill == /\ image[o] = NoImage
                   /\ servers[reqs[c].prefix] \in ImageServers
                   /\ o \notin Animated
       IN /\ image' = [image EXCEPT ![o] = IF fill THEN t ELSE @]
          /\ reqs' = [reqs EXCEPT ![c] = [@ EXCEPT !.at = "copy", !.img = image'[o]]]
    /\ UNCHANGED <<registrationVars, minted>>

\* A MetadataHandler that is nil, or that returns a code and no error, as the
\* one that SignedURLImages() returns does: metadata() panics on the nil, and
\* net/http drops the connection.
MetadataNil(c) ==
    /\ reqs[c].at = "handle" /\ reqs[c].kind = "Metadata"
    /\ Respond(c, 0, "dropped")
    /\ UNCHANGED <<registrationVars, minted, image>>

\* images(): the code of a handler without an error is propagated, the
\* message being that of a nil error; other codes are an error.
ImageHandled(c, code) ==
    /\ reqs[c].at = "handle" /\ reqs[c].kind = "Image"
    /\ CASE code = 200 -> reqs' = [reqs EXCEPT ![c].at = "copy"]
         [] code \in {400, 404} -> Respond(c, code, "nilError")
         [] OTHER -> Respond(c, 500, "hash")
    /\ UNCHANGED <<registrationVars, minted, image>>

\* io.Copy() to the response.
Copied(c) ==
    /\ reqs[c].at = "copy"
    /\ Respond(c, 200, "data")
    /\ UNCHANGED <<registrationVars, minted, image>>

\* io.Copy() fails, or json.Marshal() before it.  The hash comes with code 500
\* only if nothing was written yet: it is too late for another code after the
\* first byte.  When writing itself fails there is no response.
CopyFails(c) ==
    /\ reqs[c].at = "copy"
    /\ \/ Respond(c, 500, "hash")
       \/ Respond(c, 200, "dataThenHash")
       \/ Respond(c, 0, "dropped")
    /\ UNCHANGED <<registrationVars, minted, image>>

\* The response is read, and the client asks again.
RequestDone(c) ==
    /\ reqs[c].at = "responded"
    /\ reqs' = [reqs EXCEPT ![c] = NoRequest]
    /\ UNCHANGED <<registrationVars, minted, image>>

ERC721Next ==
    \/ \E p \in PathPrefixes, d \in ServerDefs : registerServer(p, d)
    \/ AttachServers
    \/ \E o \in {"none", "bound", "notERC721", "failed"} : AttachNext(o)
    \/ \E t \in TokenIDs : MintToken(t) \/ BurnToken(t)
    \/ \E c \in Clients :
          \/ \E p \in PathPrefixes, k \in Kinds, raw \in RawIDs : Request(c, p, k, raw)
          \/ UnsupportedMethod(c) \/ tokenID(c)
          \/ HandlerFails(c) \/ MetadataHandled(c) \/ MetadataNil(c)
          \/ \E code \in {200, 302, 404, 500} : ImageHandled(c, code)
          \/ Copied(c) \/ CopyFails(c) \/ RequestDone(c)

ERC721Spec == ServerInit721 /\ [][ERC721Next]_erc721Vars

-----------------------------------------------------------------------------

\* The comment on Server: the token "is guaranteed to exist if Metadata/Image
\* are called".  It existed when the contract was asked for this very request.
HandlesOnlyMinted ==
    \A c \in Clients :
        /\ reqs[c].at \in {"handle", "copy"} \/ reqs[c].body \in {"data", "dataThenHash"}
        /\ reqs[c].prefix \in contract
        => reqs[c].raw \in -1..IDs-1 /\ reqs[c].existed

\* The comment on httpErrHandler(): messages come with 400 and 404 only, and of
\* any other error the client sees a hash, with its code unless data was sent.
ErrorsAreObfuscated ==
    \A c \in Clients : reqs[c].at = "responded" =>
        /\ reqs[c].body \in {"notMinted", "nilError", "unsupported"} <=> reqs[c].code \in {400, 404}
        /\ reqs[c].body = "hash" <=> reqs[c].code = 500
        /\ reqs[c].body \in {"data", "dataThenHash"} <=> reqs[c].code = 200
        /\ reqs[c].body = "notMinted" => reqs[c].prefix \in contract

\* The image in a token's metadata is that token's, or that of another token
\* for which the handler returns the same object; it is missing only if there
\* is an animation or the server has no images.
ImagesAreOwn ==
    \A c \in Clients : reqs[c].kind = "Metadata" /\ reqs[c].body \in {"data", "dataThenHash"} =>
        LET o == MetadataOf[TokenOf(reqs[c].raw)]
        IN \/ /\ reqs[c].img \in TokenIDs /\ MetadataOf[reqs[c].img] = o
              /\ o \notin Animated
           \/ /\ reqs[c].img = NoImage
              /\ o \in Animated \/ servers[reqs[c].prefix] \notin ImageServers

\* The paths of a definition have exactly the prefixes that it is registered
\* under in front, each of them once: a single one if it is registered once.
PathsArePrefixed ==
    \A d \in ServerDefs :
        /\ \A i, j \in DOMAIN paths[d] : paths[d][i] = paths[d][j] => i = j
        /\ \A p \in PathPrefixes :
              servers[p] = d <=> \E i \in DOMAIN paths[d] : paths[d][i] = p

(***************************************************************************)
(* What a client is told: only about tokens that the contract knew while   *)
(* it was asking, with their own images, and nothing about errors inside.  *)
(***************************************************************************)
ServesOnlyMinted ==
    HandlesOnlyMinted /\ ErrorsAreObfuscated /\ ImagesAreOwn /\ PathsArePrefixed

=============================================================================
