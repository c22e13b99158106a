---------------------------- MODULE ConfigReload ----------------------------
(***************************************************************************)
(* loadConfig of ltick.go and the goroutine it starts: the configuration   *)
(* file with its %KEY% replaced is written to a cached file, which is read *)
(* into the configuration (config/protocol.go, viper); the goroutine does  *)
(* it again when the configuration or the dotenv file is newer than the    *)
(* cached one.  The files are edited, removed and created at any moment.   *)
(*                                                                         *)
(* One step is one operation on a file.  A file has the clock's time of    *)
(* its last write; several writes may have the same.  The version of the   *)
(* configuration file and the value of the one key in the dotenv file are  *)
(* numbers, 0 for none.  A version that is not valid stands for a syntax   *)
(* error and for a file that is read while it is being written.            *)
(***************************************************************************)
EXTENDS Naturals

CONSTANTS
    MaxEdits, \* bound: edits of the two files
    MaxTime,  \* bound: ticks of the clock
    Key, EnvironmentKey \* of the option that the placeholder names

VARIABLES
    configFile, dotenvFile, cachedFile,
    env,     \* the variable of the process, 0 if it is not set
    viper,   \* what was read of the cached file; the bound keys of the environment
    loader,  \* where New, and then the goroutine, is
    engine,  \* "new", "running", or why the process has exited
    servers, \* contents that servers were configured with
    edits, now

configVars == <<configFile, dotenvFile, cachedFile, env, viper, loader, engine, servers, edits, now>>
files == <<configFile, dotenvFile>>

Empty == [version |-> 0, valid |-> FALSE, value |-> 0]

ConfigInit ==
    /\ \E exists \in BOOLEAN :
           configFile = [exists |-> exists, mtime |-> 0, version |-> 1, valid |-> TRUE]
    /\ \E value \in {0, 1} : dotenvFile = [exists |-> TRUE, mtime |-> 0, value |-> value]
    /\ cachedFile = [exists |-> FALSE, mtime |-> 0, content |-> Empty]
    /\ env = 0
    /\ viper = [file |-> Empty, bound |-> {}]
    /\ loader = [at |-> "env", return |-> "start", info |-> 0, text |-> Empty]
    /\ engine = "new"
    /\ servers = {}
    /\ edits = 0
    /\ now = 1

Alive == engine \in {"new", "running"}

Exit(why) ==
    /\ engine' = why
    /\ UNCHANGED <<loader>>

-----------------------------------------------------------------------------
\* Config.Get and its like: an option with a key of the environment is looked up
\* under that key; viper has the environment first, and only the bound keys.
Get(key) ==
    LET lookedUp == IF key = Key /\ EnvironmentKey # "" THEN EnvironmentKey ELSE key
    IN  IF lookedUp \in viper.bound THEN env ELSE 0

\* LoadEnvFile and LoadFromEnvFile: godotenv sets variables that are not set, and
\* the keys of the options are bound.
LoadEnvFile(then) ==
    IF ~dotenvFile.exists
    THEN /\ Exit("dotenv")
         /\ UNCHANGED <<env, viper>>
    ELSE /\ env' = IF env = 0 THEN dotenvFile.value ELSE env
         /\ viper' = [viper EXCEPT !.bound = @ \cup ({EnvironmentKey} \ {""})]
         /\ loader' = [loader EXCEPT !.at = "read", !.return = then]
         /\ UNCHANGED engine

\* loadConfig, before the goroutine.
LoadConfig ==
    /\ Alive
    /\ loader.at = "env"
    /\ LoadEnvFile("start")
    /\ UNCHANGED <<files, cachedFile, servers, edits, now>>

\* loadCachedFileConfig: the configuration file is read.
ReadConfigFile ==
    /\ Alive
    /\ loader.at = "read"
    /\ loader' = IF configFile.exists
                 THEN [loader EXCEPT !.at = "write",
                           !.text = [version |-> configFile.version,
                                     valid |-> configFile.valid, value |-> Get(Key)]]
                 ELSE [loader EXCEPT !.at = loader.return]
    /\ UNCHANGED <<files, cachedFile, env, viper, engine, servers, edits, now>>

\* ioutil.WriteFile opens the cached file, which empties it, and writes it.
TruncateCachedFile ==
    /\ Alive
    /\ loader.at = "write"
    /\ cachedFile' = [exists |-> TRUE, mtime |-> now, content |-> Empty]
    /\ loader' = [loader EXCEPT !.at = "writing"]
    /\ UNCHANGED <<files, env, viper, engine, servers, edits, now>>

WriteCachedFile ==
    /\ Alive
    /\ loader.at = "writing"
    /\ cachedFile' = [cachedFile EXCEPT !.mtime = now, !.content = loader.text]
    /\ loader' = [loader EXCEPT !.at = "load"]
    /\ UNCHANGED <<files, env, viper, engine, servers, edits, now>>

\* An error leaves the file as it is, and what was read before in use.
WriteFails ==
    /\ Alive
    /\ loader.at \in {"write", "writing"}
    /\ loader' = [loader EXCEPT !.at = loader.return]
    /\ UNCHANGED <<files, cachedFile, env, viper, engine, servers, edits, now>>

\* loadFileConfig: a file that is not valid ends the process.
LoadFileConfig ==
    /\ Alive
    /\ loader.at = "load"
    /\ IF cachedFile.content.valid
       THEN /\ viper' = [viper EXCEPT !.file = cachedFile.content]
            /\ loader' = [loader EXCEPT !.at = loader.return]
            /\ UNCHANGED engine
       ELSE /\ Exit("config")
            /\ UNCHANGED viper
    /\ UNCHANGED <<files, cachedFile, env, servers, edits, now>>

-----------------------------------------------------------------------------
\* loadConfig starts the goroutine.
StartReload ==
    /\ Alive
    /\ loader.at = "start"
    /\ engine' = "running"
    /\ loader' = [loader EXCEPT !.at = "cached"]
    /\ UNCHANGED <<files, cachedFile, env, viper, servers, edits, now>>

\* The goroutine: an error of os.Stat ends it for good.
StatCachedFile ==
    /\ Alive
    /\ loader.at = "cached"
    /\ loader' = IF cachedFile.exists
                 THEN [loader EXCEPT !.at = "dotenv", !.info = cachedFile.mtime]
                 ELSE [loader EXCEPT !.at = "ended"]
    /\ UNCHANGED <<files, cachedFile, env, viper, engine, servers, edits, now>>

\* The dotenv file may be gone again when LoadEnvFile opens it, which is an exit.
StatDotenvFile ==
    /\ Alive
    /\ loader.at = "dotenv"
    /\ IF dotenvFile.exists /\ loader.info < dotenvFile.mtime
       THEN loader' = [loader EXCEPT !.at = "reenv"]
       ELSE loader' = [loader EXCEPT !.at = IF dotenvFile.exists THEN "config" ELSE "ended"]
    /\ UNCHANGED <<files, cachedFile, env, viper, engine, servers, edits, now>>

ReloadEnvFile ==
    /\ Alive
    /\ loader.at = "reenv"
    /\ LoadEnvFile("config")
    /\ UNCHANGED <<files, cachedFile, servers, edits, now>>

\* A wrong StatConfigFile for EditIsLoaded: a change is only noticed if the cached
\* file has just been written.
StatConfigFileLate ==
    /\ Alive
    /\ loader.at = "config"
    /\ loader' = CASE ~configFile.exists -> [loader EXCEPT !.at = "ended"]
                   [] loader.info > configFile.mtime ->
                          [loader EXCEPT !.at = "read", !.return = "sleep"]
                   [] OTHER -> [loader EXCEPT !.at = "sleep"]
    /\ UNCHANGED <<files, cachedFile, env, viper, engine, servers, edits, now>>

\* The time of the cached file is the one from the beginning of the round.
StatConfigFile ==
    /\ Alive
    /\ loader.at = "config"
    /\ loader' = CASE ~configFile.exists -> [loader EXCEPT !.at = "ended"]
                   [] loader.info < configFile.mtime ->
                          [loader EXCEPT !.at = "read", !.return = "sleep"]
                   [] OTHER -> [loader EXCEPT !.at = "sleep"]
    /\ UNCHANGED <<files, cachedFile, env, viper, engine, servers, edits, now>>

Sleep ==
    /\ Alive
    /\ loader.at = "sleep"
    /\ loader' = [loader EXCEPT !.at = "cached"]
    /\ UNCHANGED <<files, cachedFile, env, viper, engine, servers, edits, now>>

LoaderStep ==
    \/ LoadConfig \/ ReadConfigFile \/ TruncateCachedFile \/ WriteCachedFile \/ WriteFails
    \/ LoadFileConfig \/ StartReload \/ StatCachedFile \/ StatDotenvFile \/ ReloadEnvFile
    \/ StatConfigFile \/ Sleep

-----------------------------------------------------------------------------
\* RegisterServer configures a server from the cached file, and exits if it
\* cannot.
RegisterServer ==
    /\ engine = "running"
    /\ IF cachedFile.exists /\ cachedFile.content.valid
       THEN servers' = servers \cup {cachedFile.content} /\ UNCHANGED engine
       ELSE engine' = "register" /\ UNCHANGED servers
    /\ UNCHANGED <<files, cachedFile, env, viper, loader, edits, now>>

EditConfigFile ==
    /\ edits < MaxEdits
    /\ edits' = edits + 1
    /\ \E valid \in BOOLEAN :
           configFile' = [exists |-> TRUE, mtime |-> now, version |-> edits + 2, valid |-> valid]
    /\ UNCHANGED <<dotenvFile, cachedFile, env, viper, loader, engine, servers, now>>

EditDotenvFile ==
    /\ edits < MaxEdits
    /\ edits' = edits + 1
    /\ dotenvFile' = [exists |-> TRUE, mtime |-> now, value |-> edits + 2]
    /\ UNCHANGED <<configFile, cachedFile, env, viper, loader, engine, servers, now>>

\* As an editor does before it writes the file anew.
RemoveFile ==
    /\ edits < MaxEdits
    /\ edits' = edits + 1
    /\ \/ configFile' = [configFile EXCEPT !.exists = FALSE] /\ UNCHANGED dotenvFile
       \/ dotenvFile' = [dotenvFile EXCEPT !.exists = FALSE] /\ UNCHANGED configFile
    /\ UNCHANGED <<cachedFile, env, viper, loader, engine, servers, now>>

Tick ==
    /\ now < MaxTime
    /\ now' = now + 1
    /\ UNCHANGED <<configFile, dotenvFile, cachedFile, env, viper, loader, engine, servers, edits>>

ConfigNext ==
    \/ LoaderStep
    \/ RegisterServer
    \/ EditConfigFile \/ EditDotenvFile \/ RemoveFile
    \/ Tick

-----------------------------------------------------------------------------
Over == ~Alive \/ loader.at = "ended" \/ ~configFile.exists

\* The cached file was emptied and not written: it is later than the edit.
HalfWritten == cachedFile.exists /\ cachedFile.content = Empty /\ loader.at # "writing"

WritesSucceed == <>[][~WriteFails]_configVars

Later(file) == file.exists /\ file.mtime > cachedFile.mtime

\* The reload: an edit of the configuration file that is later than the cached file is
\* in use some time after, or a later one; and a variable of a dotenv file that is
\* later, in a round that still has to look at it, is set if it was not and is in the
\* configuration in use.  Or the goroutine has ended because a file was missing;
\* unless writing the cached file keeps failing, or has failed half way.  An edit
\* between the reading and the writing of a round is lost.
EditIsLoaded ==
    WritesSucceed =>
        /\ \A v \in 1..(MaxEdits + 1) :
               (Later(configFile) /\ configFile.version = v /\ loader.at \notin {"write", "writing"})
                   ~> (viper.file.version >= v \/ Over \/ HalfWritten)
        /\ (/\ Later(dotenvFile)
            /\ dotenvFile.value # 0
            /\ loader.at \in {"env", "start", "sleep", "cached", "dotenv"})
               ~> (viper.file.value # 0 \/ Over \/ HalfWritten \/ ~dotenvFile.exists)
=============================================================================
