----------------------------- MODULE RunnerConfig -----------------------------
(******************************************************************************)
(* The configuration of a runner on its way from the server into a form and   *)
(* back (utils/runnerConfig.js), and what the server makes of it.  A text is  *)
(* modelled by what the code looks at: a path by its parts, the environment   *)
(* by its lines, a value by what is left of it when it is trimmed, a label by *)
(* whether it is blank.  Image and limit stand for the fields that are copied *)
(* as they are.                                                               *)
(******************************************************************************)
EXTENDS Integers, FiniteSets, SequencesExt

CONSTANTS
  Keys,     \* names of environment variables, as a line of the form can hold them
  Trimmed,  \* value -> what is left of it without the spaces at its end
  Unset     \* of a key without a value, and of an image or volume left blank

Values == DOMAIN Trimmed

Blank == "blank"             \* a label of spaces only
DefaultLabels == <<"self-hosted", "linux">>
DefaultImage == "default"

ASSUME KeysAssumption == IsFiniteSet(Keys)
ASSUME TrimmedAssumption == \A v \in Values : Trimmed[v] \in Values
ASSUME UnsetAssumption == Unset \notin Values \cup {DefaultImage}
\* That these parts and labels are strings: the provers know it of no literal.
ASSUME NamesAssumption == {".", "cache", "self-hosted", "linux"} \subseteq STRING

--------------------------------------------------------------------------------
(* Paths: the parts between slashes as they were typed.                       *)

Paths == [abs : BOOLEAN, parts : Seq(STRING)]
NoPath == [abs |-> FALSE, parts |-> <<>>]
AbsPath(parts) == [abs |-> TRUE, parts |-> parts]
CachePath == AbsPath(<<"cache">>)
Skipped == {"", "."}
IsName(part) == part \notin Skipped \cup {".."}

\* Slip: a parent is dropped, and not what it is the parent of.
cleanCachePathFlat(p) ==
  [p EXCEPT !.parts = SelectSeq(p.parts, IsName)]

\* One part more on the stack of those that are left.
Push(stack, part) ==
  IF IsName(part) THEN Append(stack, part)
  ELSE IF part = ".." /\ stack # <<>> THEN Front(stack) ELSE stack

\* cleanCachePath, on the path that is typed; nothing is left of a relative one:
\* the current directory.
cleanCachePath(p) ==
  LET parts == FoldLeft(Push, <<>>, p.parts)
  IN  IF p = NoPath THEN NoPath
      ELSE [p EXCEPT !.parts = IF ~ p.abs /\ parts = <<>> THEN <<".">> ELSE parts]

\* What path.Clean of Go makes of an absolute path, said without a stack: a part
\* stays if no parents after it outnumber the names between.
Kept(parts) ==
  {i \in DOMAIN parts :
     /\ IsName(parts[i])
     /\ \A j \in i + 1 .. Len(parts) :
          Cardinality({k \in i + 1 .. j : parts[k] = ".."})
            <= Cardinality({k \in i + 1 .. j : IsName(parts[k])})}

PathClean(p) ==
  LET kept == Kept(p.parts)
      Nth(n) == CHOOSE i \in kept : Cardinality({j \in kept : j <= i}) = n
  IN  IF p.abs THEN AbsPath([n \in 1 .. Cardinality(kept) |-> p.parts[Nth(n)]]) ELSE p

--------------------------------------------------------------------------------
(* The environment: a function, and lines of text.                            *)

NoEnv == [k \in Keys |-> Unset]
Pair(k, v) == [kind |-> "pair", key |-> k, value |-> v]
Comment == [kind |-> "comment"]      \* or a blank line
BadLine == [kind |-> "bad"]          \* without a name and an equals sign
Lines == {Comment, BadLine} \cup {Pair(k, v) : k \in Keys, v \in Values}

Parses(text) == BadLine \notin Range(text)

\* A line is trimmed, and its value with it.
AddLine(env, line) ==
  IF line.kind = "pair" THEN [env EXCEPT ![line.key] = Trimmed[line.value]] ELSE env

parseExtraEnvText(text) == FoldLeft(AddLine, NoEnv, text)

formatExtraEnv(env) ==
  LET keys == SetToSeq({k \in Keys : env[k] # Unset})
  IN  [i \in DOMAIN keys |-> Pair(keys[i], env[keys[i]])]

--------------------------------------------------------------------------------
(* Forms.                                                                     *)

AddLabel(labels, s) == IF s = Blank THEN labels ELSE Append(labels, s)

normalizeLabelList(chips) == FoldLeft(AddLabel, <<>>, chips)

NoCache == [enabled |-> FALSE]
Bind(path, ro) ==
  [enabled |-> TRUE, type |-> "bind", volume |-> Unset, host |-> path, target |-> path, readOnly |-> ro]
Volume(name, path, ro) ==
  [enabled |-> TRUE, type |-> "volume", volume |-> name, host |-> NoPath, target |-> path, readOnly |-> ro]

\* The form of a new runner.
NewForm ==
  [labels |-> <<>>, image |-> Unset, limit |-> 0, env |-> <<>>, sock |-> "default",
   cacheEnabled |-> FALSE, cacheType |-> "bind", volume |-> Unset, host |-> NoPath,
   target |-> CachePath, readOnly |-> FALSE]

\* Slip: the mount path of a volume is not read.
cacheFromRunnerDefault(c) ==
  [cacheEnabled |-> c.enabled, cacheType |-> IF c.enabled THEN c.type ELSE "bind",
   volume |-> IF c.enabled THEN c.volume ELSE Unset, host |-> IF c.enabled THEN c.host ELSE NoPath,
   target |-> CachePath, readOnly |-> c.enabled /\ c.readOnly]

\* cacheFromRunner: without a cache, the fields of a new runner.
cacheFromRunner(c) ==
  IF c.enabled
    THEN [cacheEnabled |-> TRUE, cacheType |-> c.type, volume |-> c.volume,
          host |-> cleanCachePath(c.host),
          target |-> cleanCachePath(IF c.type = "bind" THEN c.host ELSE c.target),
          readOnly |-> c.readOnly]
    ELSE [f \in {"cacheEnabled", "cacheType", "volume", "host", "target", "readOnly"} |-> NewForm[f]]

\* The form of a runner that is edited.
FormOf(rec) ==
  LET c == cacheFromRunner(rec.cache)
  IN  [labels |-> rec.labels, image |-> rec.image, limit |-> rec.limit,
       env |-> formatExtraEnv(rec.env), sock |-> rec.sock,
       cacheEnabled |-> c.cacheEnabled, cacheType |-> c.cacheType, volume |-> c.volume,
       host |-> c.host, target |-> c.target, readOnly |-> c.readOnly]

\* The path that a form without one gives a volume.
VolumePath(p) == IF p = NoPath THEN CachePath ELSE cleanCachePath(p)

\* What is sent; a form that does not parse is not.
buildRuntimePayload(form) ==
  [labels |-> normalizeLabelList(form.labels),
   image |-> form.image,
   limit |-> IF form.limit > 0 THEN form.limit ELSE 0,
   env |-> parseExtraEnvText(form.env),
   sock |-> form.sock,
   cache |-> IF ~ form.cacheEnabled THEN NoCache
             ELSE IF form.cacheType = "bind" THEN Bind(cleanCachePath(form.host), form.readOnly)
             ELSE Volume(form.volume, VolumePath(form.target), form.readOnly)]

\* Slip: the path is shown as it was typed.
cacheSiblingPathWarningRaw(form) ==
  IF form.cacheEnabled /\ form.cacheType = "volume" THEN form.target ELSE NoPath

\* The path that the warning of the form names, NoPath without a warning.
cacheSiblingPathWarning(form) ==
  IF form.cacheEnabled /\ form.cacheType = "volume" THEN VolumePath(form.target) ELSE NoPath

--------------------------------------------------------------------------------
(* The server (internal/runner).                                              *)

MountPath(p) == p.abs /\ p.parts # <<>> /\ PathClean(p) = p

\* validateCache, after normalizeCache.
Accepts(payload) == payload.cache.enabled => MountPath(payload.cache.target)

\* The record that Create or Patch stores of it.
Stored(payload) ==
  [payload EXCEPT !.labels = IF @ = <<>> THEN DefaultLabels ELSE @,
                  !.image = IF @ = Unset THEN DefaultImage ELSE @]

\* What the server has of a cache, as its views show it, after normalizeCache and
\* validateCache: none, or one at a clean path, which for a bind is that of the host.
\* (In the store a bind of an older version keeps a target of its own until it is
\* edited; enrichWithManaged puts that of the host in its place.)
CacheAsStored(c) ==
  \/ c = NoCache
  \/ /\ c \in {Bind(c.target, c.readOnly), Volume(c.volume, c.target, c.readOnly)}
     /\ c.target \in Paths /\ MountPath(c.target)

\* What it has of a runner, whoever sent it: normalizeLabels, the default image and
\* validateResourceLimits of Create and Patch.
AsStored(rec) ==
  /\ rec = [labels |-> rec.labels, image |-> rec.image, limit |-> rec.limit,
            env |-> rec.env, sock |-> rec.sock, cache |-> rec.cache]
  /\ rec.labels \in Seq(STRING) /\ rec.labels # <<>> /\ Blank \notin Range(rec.labels)
  /\ rec.image # Unset /\ rec.limit \in Nat
  /\ rec.env \in [Keys -> Values \cup {Unset}]
  /\ CacheAsStored(rec.cache)

\* cacheSiblingWarnings.
ServerWarning(rec) ==
  IF rec.cache.enabled /\ rec.cache.type = "volume" THEN PathClean(rec.cache.target) ELSE NoPath

================================================================================
