-------------------------------- MODULE Auth --------------------------------
(***************************************************************************)
(* Signing in to Google: Service of internal/auth/service.go with the      *)
(* token file of internal/auth/store.go.                                   *)
(*                                                                         *)
(* There is one token file for all the workspaces and profiles of a user,  *)
(* and no lock on it.  A command loads the token, refreshes it when its    *)
(* access token has expired and saves what it got; a login and a logout of *)
(* another command can come in between.  A grant is a refresh token, and   *)
(* access tokens are numbered as Google issues them.                       *)
(***************************************************************************)
EXTENDS Naturals

CONSTANTS
    Clients,        \* the commands that run at the same time
    MaxLogins,      \* bound: grants given, callbacks of the browser
    MaxTokens,      \* bound: access tokens issued
    MaxAuthFaults   \* bound: failed operations and kills

ASSUME AuthConstantsOK == {MaxLogins, MaxTokens, MaxAuthFaults} \subseteq Nat

VARIABLES
    tokens,         \* the token file
    google,       \* last grant and access token given, last access token expired
    command,      \* what each command does, and the token it holds
    callbacks,    \* requests of the browser to a login
    sign,         \* of no code: the grant that the user is signed in with
    authFaults    \* counter

authVars == <<tokens, google, command, callbacks, sign, authFaults>>

NoToken == [grant |-> 0, access |-> 0]
NoCommand == [kind |-> "none", step |-> "idle", token |-> NoToken, channel |-> "empty",
              overtaken |-> FALSE]

AuthInit ==
    /\ tokens = NoToken /\ google = [grants |-> 0, issued |-> 0, expired |-> 0]
    /\ command = [c \in Clients |-> NoCommand]
    /\ callbacks = 0 /\ sign = 0 /\ authFaults = 0

Now(c, kind, step) == command[c].kind = kind /\ command[c].step = step
Step(c, record) == command' = [command EXCEPT ![c] = record]
Move(c, step) == Step(c, [command[c] EXCEPT !.step = step])
LeaveAuth(c) == Step(c, NoCommand)

-----------------------------------------------------------------------------
(* Login *)

StartLogin(c) ==
    /\ command[c] = NoCommand
    /\ Step(c, [NoCommand EXCEPT !.kind = "login", !.step = "wait"])
    /\ UNCHANGED <<tokens, google, callbacks, sign, authFaults>>

Answers == {"code", "denied", "wrong state", "no code"}

\* The channel holds one result, and only the first callback sends one.
Received(channel, answer) == IF channel = "empty" THEN answer ELSE channel

\* The browser calls back, perhaps more than once; nobody has to be waiting.
Callback(c) ==
    /\ command[c].kind = "login" /\ callbacks < MaxLogins /\ callbacks' = callbacks + 1
    /\ \E answer \in Answers :
          Step(c, [command[c] EXCEPT !.channel = Received(@, answer)])
    /\ UNCHANGED <<tokens, google, sign, authFaults>>

\* The select takes a result that is there.
TakeCallback(c) ==
    /\ Now(c, "login", "wait") /\ command[c].channel # "empty"
    /\ IF command[c].channel = "code" THEN Move(c, "exchange") ELSE LeaveAuth(c)
    /\ UNCHANGED <<tokens, google, callbacks, sign, authFaults>>

\* It can take the end of the time instead, also when both are there.
LoginTimeout(c) ==
    /\ Now(c, "login", "wait") /\ LeaveAuth(c)
    /\ UNCHANGED <<tokens, google, callbacks, sign, authFaults>>

Issued(grants) == google' = [google EXCEPT !.grants = grants, !.issued = @ + 1]

\* The answer holds a new grant, or the login fails for want of one.
Exchange(c) ==
    /\ Now(c, "login", "exchange")
    /\ \/ /\ google.grants < MaxLogins /\ google.issued < MaxTokens
          /\ Issued(google.grants + 1)
          /\ Step(c, [command[c] EXCEPT !.step = "write",
                          !.token = [grant |-> google.grants + 1,
                                     access |-> google.issued + 1]])
       \/ LeaveAuth(c) /\ UNCHANGED google
    /\ UNCHANGED <<tokens, callbacks, sign, authFaults>>

-----------------------------------------------------------------------------
(* The client of a command *)

StartClient(c) ==
    /\ command[c] = NoCommand
    /\ Step(c, [NoCommand EXCEPT !.kind = "client", !.step = "load"])
    /\ UNCHANGED <<tokens, google, callbacks, sign, authFaults>>

\* Without a token the command ends; one that is valid is used as it is.
LoadToken(c) ==
    /\ Now(c, "client", "load")
    /\ IF tokens = NoToken \/ tokens.access > google.expired
       THEN LeaveAuth(c)
       ELSE Step(c, [command[c] EXCEPT !.step = "refresh", !.token = tokens])
    /\ UNCHANGED <<tokens, google, callbacks, sign, authFaults>>

\* Mutation of Kept: what Google answered is saved as it is.
Kept_Answer(loaded, answered) == answered

\* A refresh that answers no refresh token leaves the loaded one.
Kept(loaded, answered) == IF answered = 0 THEN loaded ELSE answered

Refresh(c) ==
    /\ Now(c, "client", "refresh") /\ google.issued < MaxTokens
    /\ Issued(google.grants)
    /\ \E answered \in {0, command[c].token.grant} :
          Step(c, [command[c] EXCEPT !.step = "write",
                       !.token = [grant |-> Kept(@.grant, answered),
                                  access |-> google.issued + 1]])
    /\ UNCHANGED <<tokens, callbacks, sign, authFaults>>

-----------------------------------------------------------------------------
(* The token file.  Save writes a file of its own and renames it.            *)

WriteToken(c) ==
    /\ command[c].step = "write" /\ Move(c, "rename")
    /\ UNCHANGED <<tokens, google, callbacks, sign, authFaults>>

\* The other commands that will save a token they loaded before.
Overtake(c) ==
    command' = [d \in Clients |->
        IF d = c THEN NoCommand
        ELSE [command[d] EXCEPT !.overtaken =
                @ \/ (command[d].kind = "client" /\ command[d].step # "load")]]

\* A login, and a refresh that was overtaken by one, change the grant.
RenameToken(c) ==
    /\ command[c].step = "rename" /\ tokens' = command[c].token
    /\ IF command[c].kind = "login" \/ command[c].overtaken
       THEN sign' = command[c].token.grant /\ Overtake(c)
       ELSE LeaveAuth(c) /\ UNCHANGED sign
    /\ UNCHANGED <<google, callbacks, authFaults>>

Logout(c) ==
    /\ command[c] = NoCommand /\ tokens # NoToken
    /\ tokens' = NoToken /\ sign' = 0 /\ Overtake(c)
    /\ UNCHANGED <<google, callbacks, authFaults>>

\* The listener, a request or a write fails, or the command is killed.
StopAuth(c) ==
    /\ command[c] # NoCommand /\ LeaveAuth(c)
    /\ authFaults < MaxAuthFaults /\ authFaults' = authFaults + 1
    /\ UNCHANGED <<tokens, google, callbacks, sign>>

Expire ==
    /\ google.expired < google.issued
    /\ google' = [google EXCEPT !.expired = @ + 1]
    /\ UNCHANGED <<tokens, command, callbacks, sign, authFaults>>

LoginStep(c) == TakeCallback(c) \/ LoginTimeout(c)

AuthNext ==
    \/ \E c \in Clients :
          \/ StartLogin(c) \/ Callback(c) \/ LoginStep(c) \/ Exchange(c)
          \/ StartClient(c) \/ LoadToken(c) \/ Refresh(c)
          \/ WriteToken(c) \/ RenameToken(c) \/ Logout(c) \/ StopAuth(c)
    \/ Expire

AuthSpec == AuthInit /\ [][AuthNext]_authVars
-----------------------------------------------------------------------------
(* Properties *)

\* Refreshes, at the same time and killed anywhere, leave the user signed in
\* with the grant of the last login.  Only a refresh that was overtaken by a
\* login or a logout saves an older grant (refreshToken, service.go:298).
GrantKept == tokens.grant = sign /\ (tokens = NoToken <=> sign = 0)
=============================================================================
