------------------------------ MODULE ControlPipe ------------------------------
(* The control pipe of the desktop application and the token that opens it *)
(* (winsmux-app/src-tauri/src/control_pipe.rs).  The thread that serves    *)
(* the pipe creates it anew for every client and rotates the token the     *)
(* first time: it reads the token file of whoever served before, writes    *)
(* its own and remembers the old one for a while.  An application that     *)
(* ends removes the file.  Two applications may run at once; which of them *)
(* serves is decided by the name of the pipe, which one process at a time  *)
(* can hold.  An application rotates once, so a token is named after the   *)
(* application that wrote it.  The token of the environment is left out.   *)
EXTENDS Naturals, FiniteSets

CONSTANTS
    Apps,      \* the applications that may be launched, each once
    Clients,   \* the scripts that talk to the pipe
    None

ASSUME PipeAssumption == None \notin Apps

VARIABLES
    life,          \* "off", "running", "stopping", "exiting" or "gone"
    server,        \* where the serving thread is
    pipe,          \* the application that holds an instance of the pipe
    token_file,    \* the token in the file
    owned,         \* ControlPipeAuthState is there, with the application's own token
    previous,      \* its previous token
    grace,         \* its previous_deadline has not passed
    bootstrapped,  \* token_bootstrapped
    asked,         \* the token in the request that is being served
    holds,         \* the token each client has read
    (* History: no part of the code. *)
    rotations,     \* the tokens written so far
    superseded,    \* the tokens written before one that was accepted
    accepted,      \* the token accepted last
    rivalled       \* an application rotated while another one had a token

auth == <<owned, previous, grace, bootstrapped>>
history == <<rotations, superseded, accepted, rivalled>>
pipeVars == <<life, server, pipe, token_file, auth, asked, holds, history>>

Alive(a) == life[a] \notin {"off", "gone"}

ServerAt(a, step) == Alive(a) /\ server[a] = step

ServerTo(a, step) == server' = [server EXCEPT ![a] = step]

(* PipeHandle::drop: the handle is closed when a client is served, too.    *)
Released(a) == IF pipe = a THEN None ELSE pipe

-----------------------------------------------------------------------------
(* Mutations: mistakes this code could make, each in place of the          *)
(* definition whose name it extends.  Nothing else refers to them.         *)

Revokes_WhateverIsThere(a) == TRUE

AfterUse_Kept(a) == previous[a]

-----------------------------------------------------------------------------
(* Launch, and the thread that serves the pipe. *)

(* start_control_pipe_server, from setup.                                  *)
Launch(a) ==
    /\ life[a] = "off"
    /\ life' = [life EXCEPT ![a] = "running"]
    /\ ServerTo(a, "create")
    /\ UNCHANGED <<pipe, token_file, auth, asked, holds, history>>

(* create_user_only_named_pipe: FILE_FLAG_FIRST_PIPE_INSTANCE fails while  *)
(* another process holds an instance.                                      *)
CreatePipe(a) ==
    /\ ServerAt(a, "create")
    /\ pipe = None
    /\ pipe' = a
    /\ ServerTo(a, IF bootstrapped[a] THEN "listen" ELSE "previous")
    /\ UNCHANGED <<life, token_file, auth, asked, holds, history>>

(* is_control_pipe_startup_error: the thread ends.                         *)
CreateFails(a) ==
    /\ ServerAt(a, "create")
    /\ pipe # None
    /\ ServerTo(a, "disabled")
    /\ UNCHANGED <<life, pipe, token_file, auth, asked, holds, history>>

(* bootstrap_control_pipe_token: read, write and publish, under the pipe.  *)
ReadPrevious(a) ==
    /\ ServerAt(a, "previous")
    /\ previous' = [previous EXCEPT ![a] = token_file]
    /\ ServerTo(a, "write")
    /\ UNCHANGED <<life, pipe, token_file, owned, grace, bootstrapped, asked, holds, history>>

WriteToken(a) ==
    /\ ServerAt(a, "write")
    /\ token_file' = a
    /\ ServerTo(a, "publish")
    /\ rotations' = rotations \union {a}
    /\ rivalled' = (rivalled \/ \E b \in Apps \ {a} : Alive(b) /\ bootstrapped[b])
    /\ UNCHANGED <<life, pipe, auth, asked, holds, superseded, accepted>>

WriteTokenFails(a) ==
    /\ ServerAt(a, "write")
    /\ pipe' = Released(a)
    /\ ServerTo(a, "disabled")
    /\ UNCHANGED <<life, token_file, auth, asked, holds, history>>

PublishToken(a) ==
    /\ ServerAt(a, "publish")
    /\ owned' = [owned EXCEPT ![a] = TRUE]
    /\ grace' = [grace EXCEPT ![a] = TRUE]
    /\ bootstrapped' = [bootstrapped EXCEPT ![a] = TRUE]
    /\ ServerTo(a, "listen")
    /\ UNCHANGED <<life, pipe, token_file, previous, asked, holds, history>>

(* ConnectNamedPipe and ReadFile, of a client with a token it read before. *)
Connect(a, c) ==
    /\ ServerAt(a, "listen")
    /\ holds[c] # None
    /\ asked' = [asked EXCEPT ![a] = holds[c]]
    /\ ServerTo(a, "serve")
    /\ UNCHANGED <<life, pipe, token_file, auth, holds, history>>

(* A client that leaves early: any other error is followed by a pause,     *)
(* without the pipe.                                                       *)
ServeFails(a) ==
    /\ ServerAt(a, "listen")
    /\ pipe' = Released(a)
    /\ ServerTo(a, "sleep")
    /\ UNCHANGED <<life, token_file, auth, asked, holds, history>>

Resume(a) ==
    /\ ServerAt(a, "sleep")
    /\ ServerTo(a, "create")
    /\ UNCHANGED <<life, pipe, token_file, auth, asked, holds, history>>

(* authorize_rotated_or_file_token.                                        *)
Authorized(a) ==
    IF owned[a]
    THEN asked[a] = a \/ (asked[a] = previous[a] /\ grace[a])
    ELSE asked[a] = token_file

(* The previous token once the current one is used.                        *)
AfterUse(a) == None

PreviousAfter(a) ==
    IF ~owned[a] THEN previous[a]
    ELSE IF asked[a] = a THEN AfterUse(a)
    ELSE IF grace[a] THEN previous[a] ELSE None

(* The request is authorized, answered, and the pipe closed; an answer     *)
(* that cannot be written is followed by the pause as well.                *)
Serve(a) ==
    /\ ServerAt(a, "serve")
    /\ previous' = [previous EXCEPT ![a] = PreviousAfter(a)]
    /\ IF Authorized(a)
       THEN /\ accepted' = asked[a]
            /\ superseded' = IF asked[a] = a THEN rotations \ {a} ELSE superseded
       ELSE UNCHANGED <<accepted, superseded>>
    /\ asked' = [asked EXCEPT ![a] = None]
    /\ pipe' = Released(a)
    /\ \E step \in {"create", "sleep"} : ServerTo(a, step)
    /\ UNCHANGED <<life, token_file, owned, grace, bootstrapped, holds, rotations, rivalled>>

GraceEnds(a) ==
    /\ Alive(a) /\ owned[a] /\ grace[a]
    /\ grace' = [grace EXCEPT ![a] = FALSE]
    /\ UNCHANGED <<life, server, pipe, token_file, owned, previous, bootstrapped, asked, holds,
                   history>>

-----------------------------------------------------------------------------
(* Shutdown, loss and clients. *)

Shutdown(a) ==
    /\ life[a] = "running"
    /\ life' = [life EXCEPT ![a] = "stopping"]
    /\ UNCHANGED <<server, pipe, token_file, auth, asked, holds, history>>

(* revoke_control_pipe_token_on_exit removes the file only if this process *)
(* has rotated.                                                            *)
Revokes(a) == owned[a]

(* The removal may fail; the state is forgotten all the same.              *)
Revoke(a) ==
    /\ life[a] = "stopping"
    /\ life' = [life EXCEPT ![a] = "exiting"]
    /\ IF Revokes(a)
       THEN /\ \/ token_file' = None
               \/ UNCHANGED token_file
            /\ owned' = [owned EXCEPT ![a] = FALSE]
       ELSE UNCHANGED <<token_file, owned>>
    /\ UNCHANGED <<server, pipe, previous, grace, bootstrapped, asked, holds, history>>

(* The process is gone, and with it its handle: the end of an exit, or a   *)
(* crash at any time.                                                      *)
Dies(a) ==
    /\ Alive(a)
    /\ life' = [life EXCEPT ![a] = "gone"]
    /\ pipe' = Released(a)
    /\ ServerTo(a, "off")
    /\ owned' = [owned EXCEPT ![a] = FALSE]
    /\ previous' = [previous EXCEPT ![a] = None]
    /\ grace' = [grace EXCEPT ![a] = FALSE]
    /\ asked' = [asked EXCEPT ![a] = None]
    /\ UNCHANGED <<token_file, bootstrapped, holds, history>>

ReadToken(c) ==
    /\ token_file # None
    /\ holds' = [holds EXCEPT ![c] = token_file]
    /\ UNCHANGED <<life, server, pipe, token_file, auth, asked, history>>

PipeServer(a) ==
    \/ CreatePipe(a) \/ CreateFails(a)
    \/ ReadPrevious(a) \/ WriteToken(a) \/ WriteTokenFails(a) \/ PublishToken(a)
    \/ ServeFails(a) \/ Resume(a) \/ Serve(a)
    \/ \E c \in Clients : Connect(a, c)

-----------------------------------------------------------------------------
(* Properties. *)

(* Whoever serves the pipe serves the token in the file, so that a client  *)
(* which reads the file gets in: through crashes, restarts, failed writes  *)
(* and applications that could not get the pipe, unless two applications   *)
(* that both rotated ran at once.                                          *)
TokenFileIsTheServers ==
    \A a \in Apps :
        life[a] \in {"running", "stopping"} /\ server[a] \in {"listen", "serve"} /\ ~rivalled
            => token_file = a

(* A token is dead once a later one was accepted: neither the grace period *)
(* nor another restart brings it back.                                     *)
SupersededTokensAreRefused == accepted \notin superseded \/ rivalled

(* The comment on the last step of the shutdown (lib.rs:1934): the pipe    *)
(* stays with the server's thread until the process dies, "so unlink here  *)
(* cannot race a successor rotate".                                        *)
UnlinksOwnToken ==
    [][\A a \in Apps : life[a] = "stopping" /\ life'[a] = "exiting" /\ token_file' = None
            => token_file \in {a, None}]_pipeVars

=============================================================================
