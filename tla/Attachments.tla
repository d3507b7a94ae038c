------------------------------ MODULE Attachments ------------------------------
(***************************************************************************)
(* The content of one message on demand: the raw message and its           *)
(* attachments are fetched when the user opens, shows or saves them,       *)
(* several requests at once, while synchronization removes the message     *)
(* from its mailbox and the body of the message takes the attachments off  *)
(* the list that it shows itself (mail_runtime/content.rs,                 *)
(* storage/message_read_repository.rs).  Content is kept in files named by *)
(* its hash, and an attachment that is opened is a copy under its own name *)
(* (storage/content_store.rs).  Files are written under a temporary name   *)
(* first; the process may end between any two steps.                       *)
(*                                                                         *)
(* The row of the message is never deleted, and an attachment that comes   *)
(* back has another id: it is another one here.  Which part of the message *)
(* an attachment is is taken to be the same for the server, which counts   *)
(* in BODYSTRUCTURE, and for the parser of raw messages.                   *)
(***************************************************************************)
EXTENDS Naturals, FiniteSets

CONSTANTS
    Part,       \* the attachments of the message
    Content,    \* contents, or their hashes
    Request,    \* requests that may run at the same time
    MaxRequests, MaxEnds    \* bounds: requests made, ends of the process

VARIABLES
    content,    \* what each attachment is, on the server
    listed,     \* attachments that have their row
    message,    \* whether it has a location, and whether it has raw_content_hash
    hash,       \* attachments.content_hash: the content, or "missing"
    files,      \* the content store: content -> "none", "cut" (in part) or "whole"
    opened,     \* the copy made to open an attachment: a content, "none", "cut", "edited"
    request,    \* where each request is: which attachment, and what it has in hand
    uses        \* how many requests were made, how often the process ended

varsAttachments == <<content, listed, message, hash, files, opened, request, uses>>

Raw == "raw"            \* the request for the message itself
Nothing == [at |-> "idle", part |-> Raw, has |-> "missing"]
Places == {"idle", "prepare", "look", "fetch", "whole", "download", "extract", "store", "write",
           "rename", "update", "again", "copy", "place", "ready"}

At(t, place) == request[t].at = place
Go(t, place) == request' = [request EXCEPT ![t].at = place]
GoWith(t, place, c) == request' = [request EXCEPT ![t].at = place, ![t].has = c]
Fail(t) == request' = [request EXCEPT ![t] = Nothing]

-----------------------------------------------------------------------------
(* What the queries answer                                                  *)

\* attachment_context: the attachment belongs to a message of the account.
Known(part) == part \in listed
\* attachment_summary: its availability.
Available(part) == Known(part) /\ hash[part] # "missing"
\* prepare_attachment_file: the hash to make a copy of, once it is there.
HashOf(part) == IF Available(part) THEN hash[part] ELSE "missing"
\* raw_message: the message as it was received, if it was stored.
HasRaw == message.raw
\* remote_message_context: where the message is on the server.
Located == message.located

-----------------------------------------------------------------------------
(* Requests                                                                 *)

\* open_message_attachment, reveal_message_attachment, save_message_attachment_as once
\* the user has chosen a place.
Ask(t, part) ==
    /\ At(t, "idle") /\ uses.requests < MaxRequests /\ Known(part)
    /\ request' = [request EXCEPT ![t] = [Nothing EXCEPT !.at = "prepare", !.part = part]]
    /\ uses' = [uses EXCEPT !.requests = @ + 1]
    /\ UNCHANGED <<content, listed, message, hash, files, opened>>

\* save_message_as, request_raw_message.
ensure_raw_message(t) ==
    /\ At(t, "idle") /\ uses.requests < MaxRequests
    /\ request' = [request EXCEPT ![t] =
                     [Nothing EXCEPT !.at = IF HasRaw THEN "ready" ELSE "whole"]]
    /\ uses' = [uses EXCEPT !.requests = @ + 1]
    /\ UNCHANGED <<content, listed, message, hash, files, opened>>

\* prepare_attachment_file reads the hash; without one the content is requested first.
prepare_message_attachment(t) ==
    /\ At(t, "prepare") \/ At(t, "again")
    /\ LET part == request[t].part
       IN IF HashOf(part) # "missing" THEN GoWith(t, "copy", HashOf(part))
          ELSE IF At(t, "prepare") /\ Known(part) THEN Go(t, "look") ELSE Fail(t)
    /\ UNCHANGED <<content, listed, message, hash, files, opened, uses>>

\* The summary, the context and the raw message are read; an attachment without an IMAP
\* section needs the whole message.
request_attachment(t) ==
    /\ At(t, "look")
    /\ LET part == request[t].part
       IN \/ ~Known(part) /\ Fail(t)
          \/ Available(part) /\ Go(t, "again")
          \/ /\ Known(part) /\ ~Available(part)
             /\ \/ HasRaw /\ Go(t, "extract")
                \/ ~HasRaw /\ Go(t, "whole")
                \/ ~HasRaw /\ IF Located THEN Go(t, "fetch") ELSE Fail(t)
    /\ UNCHANGED <<content, listed, message, hash, files, opened, uses>>

\* The server answers with the section, cannot, or fails.
fetch_attachment(t) ==
    /\ At(t, "fetch")
    /\ \/ GoWith(t, "store", content[request[t].part])
       \/ Go(t, "whole")
       \/ Fail(t)
    /\ UNCHANGED <<content, listed, message, hash, files, opened, uses>>

\* fetch_and_store_message: a message that is in no mailbox any more cannot be fetched.
LocateMessage(t) ==
    /\ At(t, "whole")
    /\ IF Located THEN Go(t, "download") ELSE Fail(t)
    /\ UNCHANGED <<content, listed, message, hash, files, opened, uses>>

\* The whole message is fetched and stored, its location with it, whatever became of
\* that meanwhile.
fetch_and_store_message(t) ==
    /\ At(t, "download")
    /\ \/ /\ message' = [located |-> TRUE, raw |-> TRUE]
          /\ Go(t, "extract")
       \/ Fail(t) /\ UNCHANGED message
    /\ UNCHANGED <<content, listed, hash, files, opened, uses>>

extract_attachment(t) ==
    /\ At(t, "extract")
    /\ \/ ~HasRaw /\ Fail(t)                           \* message.raw_unavailable
       \/ HasRaw /\ request[t].part = Raw /\ Go(t, "ready")
       \/ HasRaw /\ request[t].part # Raw /\ GoWith(t, "store", content[request[t].part])
    /\ UNCHANGED <<content, listed, message, hash, files, opened, uses>>

-----------------------------------------------------------------------------
(* ContentStore.write_content, between the check of the row and its update  *)

store_attachment_content(t) ==
    /\ At(t, "store")
    /\ IF Known(request[t].part) THEN Go(t, "write") ELSE Fail(t)
    /\ UNCHANGED <<content, listed, message, hash, files, opened, uses>>

\* What is there already is not written again; else a temporary file is, if it can.
write_content(t) ==
    /\ At(t, "write")
    /\ \/ files[request[t].has] # "none" /\ Go(t, "update")
       \/ files[request[t].has] = "none" /\ (Go(t, "rename") \/ Fail(t))
    /\ UNCHANGED <<content, listed, message, hash, files, opened, uses>>

rename_content(t) ==
    /\ At(t, "rename")
    /\ files' = [files EXCEPT ![request[t].has] = "whole"]
    /\ Go(t, "update")
    /\ UNCHANGED <<content, listed, message, hash, opened, uses>>

\* The row may be gone by now: the file stays, and nothing refers to it.
UpdateRow(t) ==
    /\ At(t, "update")
    /\ IF Known(request[t].part)
       THEN hash' = [hash EXCEPT ![request[t].part] = request[t].has] /\ Go(t, "again")
       ELSE Fail(t) /\ UNCHANGED hash
    /\ UNCHANGED <<content, listed, message, files, opened, uses>>

-----------------------------------------------------------------------------
(* ContentStore.materialize_attachment                                      *)

\* A copy that is there is used as it is.
CopyContent(t) ==
    /\ At(t, "copy")
    /\ IF opened[request[t].part] # "none"
       THEN Go(t, "ready")
       ELSE IF files[request[t].has] = "none" THEN Fail(t) ELSE Go(t, "place")
    /\ UNCHANGED <<content, listed, message, hash, files, opened, uses>>

\* The copy gets its name; where a file cannot be replaced the one that is there stays.
PlaceCopy(t) ==
    /\ At(t, "place")
    /\ LET c == request[t].has
           part == request[t].part
       IN \/ opened' = [opened EXCEPT ![part] = IF files[c] = "whole" THEN c ELSE "cut"]
          \/ opened[part] # "none" /\ UNCHANGED opened
    /\ Go(t, "ready")
    /\ UNCHANGED <<content, listed, message, hash, files, uses>>

\* The file is given to another program, or copied to where the user said.
Deliver(t) ==
    /\ At(t, "ready") /\ Fail(t)
    /\ UNCHANGED <<content, listed, message, hash, files, opened, uses>>

-----------------------------------------------------------------------------
(* The surroundings                                                         *)

\* Another program changes the copy it was given.
Edit(part) ==
    /\ opened[part] # "none" /\ opened' = [opened EXCEPT ![part] = "edited"]
    /\ UNCHANGED <<content, listed, message, hash, files, request, uses>>

\* The body of the message is stored: an attachment that it shows itself goes off the
\* list.
replace_message_body(part) ==
    /\ part \in listed
    /\ listed' = listed \ {part}
    /\ hash' = [hash EXCEPT ![part] = "missing"]
    /\ UNCHANGED <<content, message, files, opened, request, uses>>

\* The message is gone from its mailbox.
reconcile_mailbox ==
    /\ message.located
    /\ message' = [message EXCEPT !.located = FALSE]
    /\ UNCHANGED <<content, listed, hash, files, opened, request, uses>>

EndProcess ==
    /\ uses.ends < MaxEnds
    /\ request' = [t \in Request |-> Nothing]
    /\ uses' = [uses EXCEPT !.ends = @ + 1]
    /\ UNCHANGED <<content, listed, message, hash, files, opened>>

Init ==
    /\ content \in [Part -> Content]
    /\ listed = Part
    /\ message = [located |-> TRUE, raw |-> FALSE]
    /\ hash = [p \in Part |-> "missing"]
    /\ files = [c \in Content |-> "none"]
    /\ opened = [p \in Part |-> "none"]
    /\ request = [t \in Request |-> Nothing]
    /\ uses = [requests |-> 0, ends |-> 0]

RequestStep(t) ==
    \/ \E part \in Part : Ask(t, part)
    \/ ensure_raw_message(t) \/ prepare_message_attachment(t) \/ request_attachment(t)
    \/ fetch_attachment(t) \/ LocateMessage(t) \/ fetch_and_store_message(t) \/ extract_attachment(t)
    \/ store_attachment_content(t) \/ write_content(t) \/ rename_content(t)
    \/ UpdateRow(t) \/ CopyContent(t) \/ PlaceCopy(t) \/ Deliver(t)

Next ==
    \/ \E t \in Request : RequestStep(t)
    \/ \E part \in Part : Edit(part) \/ replace_message_body(part)
    \/ reconcile_mailbox \/ EndProcess

Spec == Init /\ [][Next]_varsAttachments

-----------------------------------------------------------------------------
(* Properties                                                               *)

TypeOK ==
    /\ content \in [Part -> Content]
    /\ listed \subseteq Part
    /\ message \in [located : BOOLEAN, raw : BOOLEAN]
    /\ hash \in [Part -> Content \cup {"missing"}]
    /\ files \in [Content -> {"none", "cut", "whole"}]
    /\ opened \in [Part -> Content \cup {"none", "cut", "edited"}]
    /\ request \in [Request -> [at : Places, part : Part \cup {Raw},
                                has : Content \cup {"missing"}]]

\* An attachment that is shown as downloaded has its whole content in the store, under
\* whatever ends, failures, removals and other requests its download met.
AvailableIsStored ==
    \A p \in Part : hash[p] # "missing" => hash[p] = content[p] /\ files[hash[p]] = "whole"

\* What the user is given is the attachment, or the user's own edit of it.
GivenIsTheAttachment ==
    \A t \in Request :
        (At(t, "ready") /\ request[t].part # Raw)
        => opened[request[t].part] \in {content[request[t].part], "edited"}
=============================================================================
