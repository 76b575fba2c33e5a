------------------------------- MODULE Startup -------------------------------
(***************************************************************************)
(* main.cpp up to the LinkLayer: a node process either generates its RSA   *)
(* host key pair and writes it to ~/.sparkle/<profile>/rsa_key, or reads   *)
(* the pair that file holds.  The file outlives the process; the process   *)
(* may crash at the points in CrashPhases, at most MaxCrashes times, and   *)
(* is then started again.                                                  *)
(*                                                                         *)
(* The file is modelled by the key whose base64 text it holds and the      *)
(* number of characters of that text that reached it: QFile::write of the  *)
(* whole text is not atomic, so a crash while it runs leaves any prefix.   *)
(***************************************************************************)
EXTENDS Naturals, RSAKeyPair

CONSTANTS
    Keys,           \* key pairs rsa_gen_key may produce
    NodeOptions,    \* whether a command line gives --node (a subset of BOOLEAN)
    NoFile,         \* rsa_key does not exist
    CrashPhases,    \* phases in which the process may die
    MaxCrashes

Phases == {"down", "usage", "generating", "writing", "ready", "exited"}
ASSUME CrashPhases \subseteq Phases \ {"down", "usage", "exited"} /\ MaxCrashes \in Nat
ASSUME NodeOptions \subseteq BOOLEAN

VARIABLES
    phase,      \* where main is: down (not running), usage (returned 1 for a
                \* missing --node), generating (rsa_gen_key),
                \* writing (rsa_key truncated, write in progress), ready (the
                \* key pair is loaded, LinkLayer constructed), exited (return 1)
    keyFile,    \* NoFile or [key, chars]
    hostKey,    \* hostPair's rsa_context
    crashes

svars == <<phase, keyFile, hostKey, crashes>>

FullText(k) == Base64Len(Len(RawKey(k)))
FileData(f) == FromBase64Prefix(RawKey(f.key), f.chars)

StartupInit ==
    /\ phase = "down"
    /\ keyFile = NoFile
    /\ hostKey = EmptyKey
    /\ crashes = 0

\* main(): the options are parsed and a command line without --node exits
\* with 1 before any file is touched; otherwise a fresh RSAKeyPair, which
\* is generated when rsa_key is missing and read from it otherwise,
\* exiting with 1 when readFromFile returns false.
Start ==
    /\ phase = "down"
    /\ \E nodeGiven \in NodeOptions :
         IF ~nodeGiven
           THEN phase' = "usage" /\ hostKey' = EmptyKey
         ELSE IF keyFile = NoFile
           THEN phase' = "generating" /\ hostKey' = EmptyKey
         ELSE LET r == ReadFromFile(EmptyKey, FileData(keyFile))
              IN  /\ phase' = IF r.ok THEN "ready" ELSE "exited"
                  /\ hostKey' = r.key
    /\ UNCHANGED <<keyFile, crashes>>

\* hostPair.generate(keyLen): rsa_gen_key either fails (a --key-length it
\* rejects), and main prints " failed!" and exits with 1 before rsa_key is
\* created, or succeeds, and writeToFile opens rsa_key with
\* WriteOnly | Truncate.
Generate ==
    /\ phase = "generating"
    /\ \/ /\ phase' = "exited"
          /\ UNCHANGED <<keyFile, hostKey>>
       \/ /\ \E k \in Keys :
               /\ hostKey' = k
               /\ keyFile' = [key |-> k, chars |-> 0]
          /\ phase' = "writing"
    /\ UNCHANGED crashes

\* keyFile.write(rawKey.toBase64()); keyFile.close(); printf(" done").
WriteKeyFile ==
    /\ phase = "writing"
    /\ keyFile' = [keyFile EXCEPT !.chars = FullText(hostKey)]
    /\ phase' = "ready"
    /\ UNCHANGED <<hostKey, crashes>>

\* The process dies; the memory is lost, a write in flight left a prefix.
Crash ==
    /\ phase \in CrashPhases
    /\ crashes < MaxCrashes
    /\ phase' = "down"
    /\ hostKey' = EmptyKey
    /\ crashes' = crashes + 1
    /\ IF phase = "writing"
         THEN \E c \in 0..FullText(keyFile.key) : keyFile' = [keyFile EXCEPT !.chars = c]
         ELSE UNCHANGED keyFile

StartupNext == Start \/ Generate \/ WriteKeyFile \/ Crash

\* main's own steps are taken; a restart after a crash is not promised.
StartupSpec == StartupInit /\ [][StartupNext]_svars /\ WF_svars(Generate) /\ WF_svars(WriteKeyFile)

StartupTypeOK ==
    /\ phase \in Phases
    /\ keyFile = NoFile \/ (keyFile.key \in Keys /\ keyFile.chars \in 0..FullText(keyFile.key))
    /\ crashes \in 0..MaxCrashes

\* Every start of main that gets past the options and finds rsa_key comes
\* up, and with the key pair an earlier run generated and wrote there: a
\* crash of that earlier run (between writeToFile's truncate and close)
\* must not leave a file that makes readFromFile fail or return a
\* different key.
KeyFileLoadsGeneratedKey ==
    [][phase = "down" /\ keyFile # NoFile /\ phase' # "usage"
         => phase' = "ready" /\ hostKey' = keyFile.key]_svars
=============================================================================
