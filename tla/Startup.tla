------------------------------- MODULE Startup -------------------------------
(***************************************************************************)
(* main: from the command line to a debate or a server.                    *)
(*                                                                         *)
(* The command line, the file, the environment, the command line again,    *)
(* the defaults and the validation each work on the Configuration that the *)
(* one before has left, and each has its own idea of what is unset.  What  *)
(* is validated is then given to the client's factory and to the council,  *)
(* which make tests of their own.                                          *)
(*                                                                         *)
(* A setting is abstracted to where its value comes from and to what the   *)
(* validation and the factory tell apart.  Arguments, lines of the file    *)
(* and the environment are chosen at the step that reads them.             *)
(***************************************************************************)
EXTENDS Integers

CONSTANTS
  FileRounds,   \* the values of "rounds" in a file
  AskedRounds,  \* the values of --rounds, 0 if it is not given
  LineBound     \* bound on the lines of a file that change a setting

ASSUME StartupAssumption ==
  FileRounds \subseteq Nat /\ AskedRounds \subseteq Nat /\ LineBound \in Nat

VARIABLES
  stage,     \* where main is
  opts,      \* the Options
  config,    \* the Configuration
  env,       \* history: the sources of keys the environment had
  lines,     \* history: the lines read so far
  status     \* the exit status

mainVars == <<stage, opts, config, env, lines, status>>

\* std::stoi takes negative numbers too.
ArgRounds == AskedRounds \cup {-1}

MinRounds == 1
MaxRounds == 20
MinModels == 2
DefaultRounds == 4
DefaultModels == 4

\* Names of providers: three the validator knows, in lower case, one it does
\* not know but the factory does, and any other.
ApiType == {"ollama", "claude", "google-agy", "OLLAMA", "other"}

Urls == [count : Nat, valid : BOOLEAN]
NoUrls == [count |-> 0, valid |-> TRUE]

\* The places a key is looked for, in no order: three variables, the files of
\* the two command lines, and a file that a variable names.
KeySource == {"CLAUDE_API_KEY", "ANTHROPIC_API_KEY", "claude cli",
              "GOOGLE_AGY_API_KEY", "GOOGLE_APPLICATION_CREDENTIALS", "gcloud"}

Configuration ==
  [rounds : {DefaultRounds} \cup FileRounds \cup {n \in ArgRounds : n > 0},
   models : Nat, urls : Urls, api_type : ApiType,
   claude_api_key : {"", "file"} \cup KeySource,
   google_agy_api_key : {"", "file"} \cup KeySource,
   google_agy_endpoint : {"", "file", "project"},
   google_agy_model : {"", "file", "GOOGLE_AGY_MODEL", "default"}]

Stage == {"arguments", "file", "environment", "override", "defaults",
          "validate", "create", "available", "initialize", "debate", "serve",
          "exited", "aborted"}

MainTypeOK ==
  /\ stage \in Stage
  /\ opts \in [rounds : Int, models : Nat, urls : Urls, web : BOOLEAN]
  /\ config \in Configuration
  /\ env \subseteq KeySource
  /\ lines \in 0 .. LineBound
  /\ status \in {0, 1}

\* The member initializers of Configuration and of Options.
MainInit ==
  /\ stage = "arguments"
  /\ opts = [rounds |-> 0, models |-> 0, urls |-> NoUrls, web |-> FALSE]
  /\ config = [rounds |-> DefaultRounds, models |-> 0, urls |-> NoUrls,
               api_type |-> "ollama", claude_api_key |-> "",
               google_agy_api_key |-> "", google_agy_endpoint |-> "",
               google_agy_model |-> ""]
  /\ env = {}
  /\ lines = 0
  /\ status = 0

-----------------------------------------------------------------------------

ExitWith(code) == stage' = "exited" /\ status' = code

\* A number that is none makes std::stoi throw, and main catches nothing
\* before it has a configuration.
Abort == stage' = "aborted" /\ UNCHANGED status

UrlChoice == {NoUrls} \cup [count : {1, 2}, valid : BOOLEAN]

parse_arguments ==
  /\ stage = "arguments"
  /\ \/ /\ \E rounds \in ArgRounds, models \in 0 .. 2, urls \in UrlChoice,
               web \in BOOLEAN :
             opts' = [rounds |-> rounds, models |-> models, urls |-> urls,
                      web |-> web]
        /\ stage' = "file"
        /\ UNCHANGED status
     \/ ExitWith(1) /\ UNCHANGED opts
     \/ Abort /\ UNCHANGED opts
  /\ UNCHANGED <<config, env, lines>>

\* A line the file sets something with.  Lists grow, other settings are
\* overwritten; comments, unknown keys and empty values change nothing.
set_config_value ==
  \/ \E n \in FileRounds : config' = [config EXCEPT !.rounds = n]
  \/ config' = [config EXCEPT !.models = @ + 1]
  \/ \E valid \in BOOLEAN :
       config' = [config EXCEPT !.urls =
         [count |-> @.count + 1, valid |-> @.valid /\ valid]]
  \/ \E type \in ApiType : config' = [config EXCEPT !.api_type = type]
  \/ config' = [config EXCEPT !.claude_api_key = "file"]
  \/ config' = [config EXCEPT !.google_agy_api_key = "file"]
  \/ config' = [config EXCEPT !.google_agy_model = "file"]
  \/ config' = [config EXCEPT !.google_agy_endpoint = "file"]

ReadLine ==
  /\ stage = "file" /\ lines < LineBound
  /\ lines' = lines + 1
  /\ \/ set_config_value /\ UNCHANGED <<stage, status>>
     \/ Abort /\ UNCHANGED config
  /\ UNCHANGED <<opts, env>>

\* The end of the file, or no file at all.
EndOfFile ==
  /\ stage = "file"
  /\ stage' = "environment"
  /\ UNCHANGED <<opts, config, env, lines, status>>

-----------------------------------------------------------------------------
(* apply_env_overrides.  A file is found if it can be opened and has a line  *)
(* with a token; without HOME neither command line has one.                  *)

read_claude_cli_credentials(found) ==
  IF "claude cli" \in found THEN "claude cli" ELSE ""

\* The default file may have a "client_secret" instead of an "access_token",
\* the file that is named may not: then the default one is read after all.
read_gcloud_credentials(found) ==
  IF "GOOGLE_APPLICATION_CREDENTIALS" \in found
    THEN "GOOGLE_APPLICATION_CREDENTIALS"
    ELSE IF "gcloud" \in found THEN "gcloud" ELSE ""

\* The project is a variable or the output of the gcloud command.  If that
\* output is blank its stream is closed twice, which is undefined.
read_gcloud_project == {"", "project"}

\* Mutant: the credentials of the CLI are found before ANTHROPIC_API_KEY.
CliKeyFirst(key, found) ==
  IF key # "" THEN key
  ELSE IF "CLAUDE_API_KEY" \in found THEN "CLAUDE_API_KEY"
  ELSE IF read_claude_cli_credentials(found) # "" THEN "claude cli"
  ELSE IF "ANTHROPIC_API_KEY" \in found THEN "ANTHROPIC_API_KEY"
  ELSE ""

ClaudeKey(key, found) ==
  IF key # "" THEN key
  ELSE IF "CLAUDE_API_KEY" \in found THEN "CLAUDE_API_KEY"
  ELSE IF "ANTHROPIC_API_KEY" \in found THEN "ANTHROPIC_API_KEY"
  ELSE read_claude_cli_credentials(found)

GoogleKey(key, found) ==
  IF key # "" THEN key
  ELSE IF "GOOGLE_AGY_API_KEY" \in found THEN "GOOGLE_AGY_API_KEY"
  ELSE read_gcloud_credentials(found)

apply_env_overrides ==
  /\ stage = "environment"
  /\ \E found \in SUBSET KeySource, model \in {"", "GOOGLE_AGY_MODEL"},
        project \in read_gcloud_project :
       /\ env' = found
       /\ config' = [config EXCEPT
            !.claude_api_key = ClaudeKey(@, found),
            !.google_agy_api_key = GoogleKey(@, found),
            !.google_agy_model = IF @ = "" THEN model ELSE @,
            !.google_agy_endpoint = IF @ = "" THEN project ELSE @]
       /\ \/ stage' = "override" /\ UNCHANGED status
          \/ config'.google_agy_endpoint = "" /\ Abort
  /\ UNCHANGED <<opts, lines>>

\* Mutant: the urls of the command line are added to those of the file.
OverrideAddsUrls ==
  /\ stage = "override"
  /\ config' = [config EXCEPT
       !.rounds = IF opts.rounds > 0 THEN opts.rounds ELSE @,
       !.models = IF opts.models > 0 THEN opts.models ELSE @,
       !.urls = [count |-> @.count + opts.urls.count,
                 valid |-> @.valid /\ opts.urls.valid]]
  /\ stage' = "defaults"
  /\ UNCHANGED <<opts, env, lines, status>>

OverrideWithArguments ==
  /\ stage = "override"
  /\ config' = [config EXCEPT
       !.rounds = IF opts.rounds > 0 THEN opts.rounds ELSE @,
       !.models = IF opts.models > 0 THEN opts.models ELSE @,
       !.urls = IF opts.urls.count > 0 THEN opts.urls ELSE @]
  /\ stage' = "defaults"
  /\ UNCHANGED <<opts, env, lines, status>>

-----------------------------------------------------------------------------
(* ConfigValidator *)

\* Mutant: the model of the Google client has no default.
DefaultsWithoutModel ==
  /\ stage = "defaults"
  /\ config' = [config EXCEPT
       !.rounds = IF @ = 0 THEN DefaultRounds ELSE @,
       !.models = IF @ = 0 THEN DefaultModels ELSE @,
       !.urls = IF @.count = 0 THEN [count |-> 1, valid |-> TRUE] ELSE @]
  /\ stage' = "validate"
  /\ UNCHANGED <<opts, env, lines, status>>

apply_defaults ==
  /\ stage = "defaults"
  /\ config' = [config EXCEPT
       !.rounds = IF @ = 0 THEN DefaultRounds ELSE @,
       !.models = IF @ = 0 THEN DefaultModels ELSE @,
       !.urls = IF @.count = 0 THEN [count |-> 1, valid |-> TRUE] ELSE @,
       !.google_agy_model = IF @ = "" THEN "default" ELSE @]
  /\ stage' = "validate"
  /\ UNCHANGED <<opts, env, lines, status>>

\* validate_rounds
ValidRounds == config.rounds \in MinRounds .. MaxRounds

\* get_validation_errors finds nothing.
Valid ==
  /\ config.api_type \in {"ollama", "claude", "google-agy"}
  /\ ValidRounds
  /\ config.models >= MinModels
  /\ config.api_type = "ollama" => config.urls.valid
  /\ config.api_type = "claude" => config.claude_api_key # ""
  /\ config.api_type = "google-agy" => config.google_agy_api_key # ""

validate ==
  /\ stage = "validate"
  /\ IF Valid THEN stage' = "create" /\ UNCHANGED status ELSE ExitWith(1)
  /\ UNCHANGED <<opts, config, env, lines>>


-----------------------------------------------------------------------------
(* The client and what main does with it. *)

\* create_from_config ignores case, validate_api_type does not.
FactoryAccepts == config.api_type \in ApiType \ {"other"}

\* The key a cloud client is constructed with; without one it looks for its
\* variable again.
Constructed(key, variable) ==
  IF key = "" /\ variable \in env THEN variable ELSE key

\* What the clients of the cloud test in is_available; they ask nobody.
CloudAvailable ==
  /\ config.api_type = "claude" =>
       Constructed(config.claude_api_key, "CLAUDE_API_KEY") # ""
  /\ config.api_type = "google-agy" =>
       /\ Constructed(config.google_agy_api_key, "GOOGLE_AGY_API_KEY") # ""
       /\ config.google_agy_model # ""

Cloud == config.api_type \in {"claude", "google-agy"}

\* An unknown provider, or a handle that libcurl refuses an Ollama client.
create_from_config ==
  /\ stage = "create"
  /\ \/ FactoryAccepts /\ stage' = "available" /\ UNCHANGED status
     \/ ~Cloud /\ ExitWith(1)
  /\ UNCHANGED <<opts, config, env, lines>>

\* An Ollama server answers or does not.
is_available ==
  /\ stage = "available" /\ ~opts.web
  /\ \/ CloudAvailable /\ stage' = "initialize" /\ UNCHANGED status
     \/ ~(Cloud /\ CloudAvailable) /\ ExitWith(1)
  /\ UNCHANGED <<opts, config, env, lines>>

\* The same for a server, whose councils are made later.
web_mode ==
  /\ stage = "available" /\ opts.web
  /\ \/ CloudAvailable /\ stage' = "serve" /\ UNCHANGED status
     \/ ~(Cloud /\ CloudAvailable) /\ ExitWith(1)
  /\ UNCHANGED <<opts, config, env, lines>>

initialize_analysts ==
  /\ stage = "initialize"
  /\ IF config.models = 0
     THEN ExitWith(1)
     ELSE stage' = "debate" /\ UNCHANGED status
  /\ UNCHANGED <<opts, config, env, lines>>

\* The debate returns or throws; the server ends, or cannot listen, or throws.
Finish ==
  /\ stage \in {"debate", "serve"}
  /\ \E code \in {0, 1} : ExitWith(code)
  /\ UNCHANGED <<opts, config, env, lines>>

Ended == stage \in {"exited", "aborted"} /\ UNCHANGED mainVars

MainNext ==
  \/ parse_arguments \/ ReadLine \/ EndOfFile \/ apply_env_overrides
  \/ OverrideWithArguments \/ apply_defaults \/ validate
  \/ create_from_config \/ is_available \/ web_mode
  \/ initialize_analysts \/ Finish
  \/ Ended

MainSpec == MainInit /\ [][MainNext]_mainVars

-----------------------------------------------------------------------------
(* Properties. *)

Validated == stage \in {"create", "available", "initialize", "debate", "serve"}

\* What passes the validation is not refused for its settings later on: the
\* factory knows the provider, a cloud client finds its key and its model,
\* and the council has analysts.  Only the network, libcurl or the debate
\* itself can still fail.
ValidatedStarts ==
  Validated => FactoryAccepts /\ CloudAvailable /\ config.models # 0

\* The command line decides what it states, whatever the file and the defaults
\* say, and all endpoints of the file are replaced by its own.  For keys,
\* ConfigParser.cpp:164 "Priority: CLAUDE_API_KEY > ANTHROPIC_API_KEY >
\* ~/.claude/.credentials.json": one from the environment is never used while
\* a better one is there, and a provider whose key is anywhere has it.
BestSourceWins ==
  Validated =>
    /\ opts.rounds > 0 => config.rounds = opts.rounds
    /\ opts.models > 0 => config.models = opts.models
    /\ opts.urls.count > 0 => config.urls = opts.urls
    /\ config.claude_api_key = "ANTHROPIC_API_KEY" => "CLAUDE_API_KEY" \notin env
    /\ config.claude_api_key = "claude cli" =>
         env \cap {"CLAUDE_API_KEY", "ANTHROPIC_API_KEY"} = {}
    /\ config.google_agy_api_key = "GOOGLE_APPLICATION_CREDENTIALS" =>
         "GOOGLE_AGY_API_KEY" \notin env
    /\ config.google_agy_api_key = "gcloud" =>
         env \cap {"GOOGLE_AGY_API_KEY", "GOOGLE_APPLICATION_CREDENTIALS"} = {}
    /\ config.claude_api_key = "" =>
         env \cap {"CLAUDE_API_KEY", "ANTHROPIC_API_KEY", "claude cli"} = {}
    /\ config.google_agy_api_key = "" =>
         env \cap {"GOOGLE_AGY_API_KEY", "GOOGLE_APPLICATION_CREDENTIALS", "gcloud"} = {}
=============================================================================
