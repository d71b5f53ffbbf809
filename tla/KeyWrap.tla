------------------------------- MODULE KeyWrap -------------------------------
(***************************************************************************)
(* How ocicrypt-rs wraps the key of a layer for its recipients and unwraps *)
(* it again (encryption.rs, keywrap, config.rs, helpers.rs).  The wrappers *)
(* are registered once in a process: JWE, and one for each key provider of *)
(* its configuration.  An annotation of the layer holds the packets of one *)
(* wrapper; each wrapper is asked in turn, in the order of a hash map.     *)
(*                                                                         *)
(* The options of the layer are "opts", "" when nothing was serialised.  A *)
(* packet says who can open it.  The services of key providers, JOSE and   *)
(* the KBCs of the native one are external.                                *)
(***************************************************************************)
EXTENDS Naturals, Sequences, SequencesExt, FiniteSets, Functions, TLC

CONSTANTS
  Environments,    \* key-provider configurations: functions from names to the way to reach it
  ProviderNames,   \* the names of providers, in order
  WrapFeatures,    \* "cmd", "grpc", "ttrpc" and "native", as far as built
  KeyFiles,        \* a function from file names to what is in them
  RecipientLists,  \* lists of recipients: a protocol and a name or file
  KeyLists,        \* lists of key arguments: files with passwords, providers
  ForeignPackets,  \* packets other tools add
  MaxWraps         \* bound: wraps, additions and decryptions in a behaviour

ASSUME KeyWrapAssumption ==
  /\ ProviderNames \in Seq(STRING)
  /\ \A env \in Environments : IsFiniteSet(DOMAIN env)

VARIABLES
  wrapPc,      \* "begin", "ready", "encrypting", "failed" or "panicked"
  wrappers,    \* KEY_WRAPPERS: a function from schemes to the way to reach them
  ec,          \* EncryptConfig: its parameters
  annotations, \* of the layer: a function from schemes to packets
  pubOpts,     \* its public options: "none", "pub" or ""
  channel,     \* CHANNEL of the native provider: the KBC and KBS of its first use
  decrypted,   \* the last decryption: parameters and outcome
  wraps        \* history: wraps, additions and decryptions

wrapVars == <<wrapPc, wrappers, ec, annotations, pubOpts, channel, decrypted, wraps>>

NoChannel == "none"
NotDecrypted == [params |-> <<>>, replies |-> <<>>, state |-> "none", opts |-> ""]

WrapInit ==
  /\ wrapPc = "begin"
  /\ wrappers = <<>>
  /\ ec = <<>>
  /\ annotations = <<>>
  /\ pubOpts = "none"
  /\ channel = NoChannel
  /\ decrypted = NotDecrypted
  /\ wraps = 0

\* One for the keys of files, and one for each provider.
KeyWrappers(env) == [s \in {"jwe"} \cup DOMAIN env |-> IF s = "jwe" THEN "" ELSE env[s]]

\* OcicryptConfig::from_env: a configuration that is named and cannot be read ends the process.
Register(env, legal) ==
  /\ wrapPc \in {"begin", "ready"} /\ wraps < MaxWraps
  /\ wrapPc' = IF legal THEN "ready" ELSE "panicked"
  /\ wrappers' = KeyWrappers(env)
  /\ channel' = NoChannel
  /\ decrypted' = NotDecrypted
  /\ UNCHANGED <<ec, annotations, pubOpts, wraps>>

-----------------------------------------------------------------------------
(* Configurations *)

\* update_param appends.
AddParam(params, name, values) ==
  (name :> (IF name \in DOMAIN params THEN params[name] ELSE <<>>) \o values) @@ params

\* decrypt_with_key_provider, encrypt_with_key_provider: "name:value" or "name".
AddProviders(params, providers) ==
  FoldLeft(LAMBDA p, x : AddParam(p, x.name, <<IF x.value = "" THEN "Enabled" ELSE x.value>>),
           params, providers)

Of(args, types) == SelectSeq(args, LAMBDA a : a.type \in types)
Contents(args) == [i \in DOMAIN args |-> KeyFiles[args[i].name]]

\* process_pwd_string: a password, in a file, or at a descriptor that must be a number.
PasswordOf(a) == IF a.form = "file" THEN KeyFiles[a.password].key ELSE a.password
LegalKeyArgs(args) ==
  \A i \in DOMAIN args : args[i].type # "provider" =>
    /\ args[i].name \in DOMAIN KeyFiles
    /\ args[i].form = "file" => args[i].password \in DOMAIN KeyFiles
PanickingKeyArgs(args) == \E i \in DOMAIN args : args[i].form = "fd" /\ args[i].password = "x"

\* decrypt_with_gpg, _priv_keys and _pkcs11.
KeyFileParams(keys, passwords) ==
  ("gpg-privatekeys" :> keys) @@ ("gpg-privatekeys-passwords" :> passwords)
  @@ ("privkeys" :> keys) @@ ("privkeys-passwords" :> passwords)
  @@ ("pkcs11-config" :> <<"">>) @@ ("pkcs11-yamls" :> keys)

\* create_decrypt_config: a key file is taken for every kind of key there is, and one
\* without a password for a certificate as well.
DecryptParams(args) ==
  LET files == Of(args, {"file"})
      keys == Contents(files)
      passwords == [i \in DOMAIN files |-> PasswordOf(files[i])]
      certs == Contents(SelectSeq(files, LAMBDA a : a.form = "none"))
  IN
  AddProviders((IF files = <<>> THEN <<>> ELSE KeyFileParams(keys, passwords))
               @@ (IF certs = <<>> THEN <<>> ELSE "x509s" :> certs), Of(args, {"provider"}))

\* create_encrypt_config: recipients by protocol.
LegalRecipients(rs) ==
  \A i \in DOMAIN rs : /\ rs[i].type \in {"pgp", "jwe", "pkcs7", "pkcs11", "provider"}
                       /\ rs[i].type \in {"jwe", "pkcs7", "pkcs11"} => rs[i].name \in DOMAIN KeyFiles
Param(name, values) == IF values = <<>> THEN <<>> ELSE name :> values

\* encrypt_with_gpg, _pkcs7, _jwe and _pkcs11.
RecipientParams(pgp, certs, keys, yamls) ==
  Param("gpg-recipients", pgp) @@ (IF pgp = <<>> THEN <<>> ELSE "gpg-pubkeyringfile" :> <<"">>)
  @@ Param("x509s", certs) @@ Param("pubkeys", keys)
  @@ Param("pkcs11-pubkeys", yamls) @@ Param("pkcs11-yamls", yamls)
  @@ (IF yamls = <<>> THEN <<>> ELSE "pkcs11-config" :> <<"">>)

EncryptParams(rs) ==
  LET pgp == Of(rs, {"pgp"}) IN
  AddProviders(RecipientParams([i \in DOMAIN pgp |-> pgp[i].name], Contents(Of(rs, {"pkcs7"})),
                               Contents(Of(rs, {"jwe"})), Contents(Of(rs, {"pkcs11"}))),
               Of(rs, {"provider"}))

-----------------------------------------------------------------------------
(* Wrapping *)

\* encrypter: a key that is not of the right sort is an error.
AllKeys(keys, sort) == \A i \in DOMAIN keys : keys[i].sort = sort

CanWrapJwe(params) == "pubkeys" \in DOMAIN params /\ AllKeys(params["pubkeys"], "public")

\* The protocol with a provider: an answer without results is an error.
Answers(reply) == reply = "results"

\* Its wrapper has no runner for commands, and a way that was not built is an error.
Reached(scheme, reply) == wrappers[scheme] \in ({"grpc", "ttrpc"} \cap WrapFeatures) /\ Answers(reply)

CanWrapByProvider(scheme, params, reply) == scheme \in DOMAIN params /\ Reached(scheme, reply)

\* wrap_keys of the two wrappers: whether they can, and the packet.
CanWrap(scheme, params, replies) ==
  IF scheme = "jwe" THEN CanWrapJwe(params) ELSE CanWrapByProvider(scheme, params, replies[scheme])
Wrapped(scheme, params, o) ==
  [legal |-> TRUE, opts |-> o, by |-> scheme,
   to |-> IF scheme = "jwe" THEN {k.key : k \in Range(params["pubkeys"])} ELSE {}]

\* finalize_annotations: every wrapper there is must wrap; the packets are added to those
\* of an annotation, and the public options written anew.
Finalize(params, replies, o, pub) ==
  IF \A s \in DOMAIN wrappers : CanWrap(s, params, replies)
  THEN /\ annotations' = [s \in DOMAIN wrappers |->
                            (IF s \in DOMAIN annotations THEN annotations[s] ELSE <<>>)
                            \o <<Wrapped(s, params, o)>>]
       /\ pubOpts' = pub
       /\ wrapPc' = "ready"
  ELSE /\ wrapPc' = "failed"
       /\ UNCHANGED <<annotations, pubOpts>>

\* encrypt_layer of a layer that is not encrypted.
EncryptLayer(rs) ==
  /\ wrapPc = "ready" /\ annotations = <<>> /\ wraps < MaxWraps
  /\ wraps' = wraps + 1
  /\ ec' = IF LegalRecipients(rs) THEN EncryptParams(rs) ELSE ec
  /\ wrapPc' = IF LegalRecipients(rs) THEN "encrypting" ELSE "failed"
  /\ UNCHANGED <<wrappers, annotations, pubOpts, channel, decrypted>>

FinalizeNew(replies) ==
  /\ wrapPc = "encrypting"
  /\ Finalize(ec, replies, "opts", "pub")
  /\ UNCHANGED <<wrappers, ec, channel, decrypted, wraps>>

\* Another tool adds a packet to what is there, before or after it.
AddForeign(scheme, packet, first) ==
  /\ wrapPc = "ready" /\ wraps < MaxWraps
  /\ scheme \in DOMAIN annotations
  /\ (scheme = "jwe") = (packet.by = "jwe")
  /\ wraps' = wraps + 1
  /\ annotations' = [annotations EXCEPT ![scheme] = IF first THEN <<packet>> \o @ ELSE @ \o <<packet>>]
  /\ decrypted' = NotDecrypted
  /\ UNCHANGED <<wrapPc, wrappers, ec, pubOpts, channel>>

-----------------------------------------------------------------------------
(* Unwrapping *)

\* get_layer_key_opts: the annotation of any provider stands for that of each.
AnnotationOf(scheme) ==
  IF scheme = "jwe" THEN IF "jwe" \in DOMAIN annotations THEN annotations["jwe"] ELSE <<>>
  ELSE LET i == SelectInSeq(ProviderNames, LAMBDA n : n \in DOMAIN annotations) IN
       IF i = 0 THEN <<>> ELSE annotations[ProviderNames[i]]

Probe(scheme, params) == scheme = "jwe" => "privkeys" \in DOMAIN params

\* from_native: the KBC and KBS are a parameter, "kbc::kbs"; the first use makes the
\* channel, whatever later ones name.
Native(params) ==
  IF channel # NoChannel THEN channel ELSE Head(params["attestation-agent"])
NativeParam(params) == "attestation-agent" \in DOMAIN params /\ Head(params["attestation-agent"]) # "bad"

\* decrypter of the keys that are tried, in order, up to one that is no private key.
PrivateUpTo(keys, i) == \A j \in DOMAIN keys : j <= i => keys[j].sort = "private"

\* unwrap_keys of the two wrappers.
UnwrapsJwe(params, packet) ==
  LET keys == params["privkeys"] IN
  \E i \in DOMAIN keys : keys[i].key \in packet.to /\ PrivateUpTo(keys, i)

UnwrapsNatively(params, reply) == "native" \in WrapFeatures /\ NativeParam(params) /\ Answers(reply)
UnwrapsProvider(scheme, params, replies) ==
  IF wrappers[scheme] = "native" THEN UnwrapsNatively(params, replies[scheme])
  ELSE Reached(scheme, replies[scheme])
Unwraps(scheme, params, packet, replies) ==
  IF scheme = "jwe" THEN UnwrapsJwe(params, packet) ELSE UnwrapsProvider(scheme, params, replies)

\* Mutant of PreUnwrap: only the first packet is tried.
PreUnwrapFirst(scheme, params, replies) ==
  LET packet == Head(AnnotationOf(scheme)) IN
  IF packet.legal /\ Unwraps(scheme, params, packet, replies) THEN <<packet>> ELSE <<>>

\* pre_unwrap_key: the first packet that unwraps, <<>> for none; one that is not base64
\* ends the search.
PreUnwrap(scheme, params, replies) ==
  LET packets == AnnotationOf(scheme)
      bad == SelectInSeq(packets, LAMBDA p : ~ p.legal)
      tried == IF bad = 0 THEN packets ELSE SubSeq(packets, 1, bad - 1)
      i == SelectInSeq(tried, LAMBDA p : Unwraps(scheme, params, p, replies)) IN
  IF i = 0 THEN <<>> ELSE <<tried[i]>>

\* A wrapper that has no packets or no keys, or whose packet unwraps to an empty key.
PassedOver(scheme, params, replies) ==
  \/ AnnotationOf(scheme) = <<>>
  \/ ~ Probe(scheme, params)
  \/ LET packet == PreUnwrap(scheme, params, replies) IN packet # <<>> /\ packet[1].opts = ""

\* decrypt_layer_key_opts_data: the first wrapper that is not passed over decides.
UnwrapOpts(order, params, replies) ==
  LET i == SelectInSeq(order, LAMBDA s : ~ PassedOver(s, params, replies))
      packet == IF i = 0 THEN <<>> ELSE PreUnwrap(order[i], params, replies) IN
  [params |-> params, replies |-> replies,
   state |-> IF packet = <<>> THEN "error" ELSE "unwrapped",
   opts |-> IF packet = <<>> THEN "" ELSE packet[1].opts]

ChannelUsed(order, params) ==
  \E i \in DOMAIN order : /\ order[i] # "jwe" /\ wrappers[order[i]] = "native"
                          /\ AnnotationOf(order[i]) # <<>> /\ NativeParam(params)

\* get_layer_pub_opts: an annotation that is there must hold options.
PubOptsLegal == pubOpts # ""

\* decrypt_layer: the public options must be legal as well.
DecryptLayer(args, order, replies) ==
  /\ wrapPc = "ready" /\ annotations # <<>> /\ wraps < MaxWraps
  /\ ToSet(order) = DOMAIN wrappers
  /\ wraps' = wraps + 1
  /\ IF PanickingKeyArgs(args) \/ ~ LegalKeyArgs(args)
     THEN /\ wrapPc' = IF PanickingKeyArgs(args) THEN "panicked" ELSE "failed"
          /\ UNCHANGED <<decrypted, channel>>
     ELSE LET params == DecryptParams(args)
              found == UnwrapOpts(order, params, replies) IN
          /\ decrypted' = [found EXCEPT !.state = IF @ = "unwrapped" /\ PubOptsLegal THEN "opened" ELSE "error"]
          /\ channel' = IF ChannelUsed(order, params) THEN Native(params) ELSE channel
          /\ UNCHANGED wrapPc
  /\ UNCHANGED <<wrappers, ec, annotations, pubOpts>>

\* encrypt_layer of a layer that is encrypted, to add recipients: its key is unwrapped,
\* and not kept; there is no finalizer, so that what is wrapped now is empty.
AddRecipients(rs, args, order, replies) ==
  /\ wrapPc = "ready" /\ wraps < MaxWraps
  /\ DOMAIN annotations \cap DOMAIN wrappers # {}
  /\ ToSet(order) = DOMAIN wrappers
  /\ wraps' = wraps + 1
  /\ LegalRecipients(rs) /\ LegalKeyArgs(args) /\ ~ PanickingKeyArgs(args)
  /\ IF UnwrapOpts(order, DecryptParams(args), replies).state = "unwrapped"
     THEN Finalize(EncryptParams(rs), replies, "", "")
     ELSE wrapPc' = "failed" /\ UNCHANGED <<annotations, pubOpts>>
  /\ ec' = EncryptParams(rs)
  /\ channel' = IF ChannelUsed(order, DecryptParams(args)) THEN Native(DecryptParams(args)) ELSE channel
  /\ decrypted' = NotDecrypted
  /\ UNCHANGED wrappers

WrapNext ==
  \/ \E env \in Environments, legal \in BOOLEAN : Register(env, legal)
  \/ \E rs \in RecipientLists : EncryptLayer(rs)
  \/ \E s \in DOMAIN annotations, p \in ForeignPackets, first \in BOOLEAN : AddForeign(s, p, first)
  \/ \E replies \in [DOMAIN wrappers \ {"jwe"} -> {"results", "null"}] :
       \/ FinalizeNew(replies)
       \/ \E args \in KeyLists, order \in SetToSeqs(DOMAIN wrappers) :
            \/ DecryptLayer(args, order, replies)
            \/ \E rs \in RecipientLists : AddRecipients(rs, args, order, replies)

WrapSpec == WrapInit /\ [][WrapNext]_wrapVars

-----------------------------------------------------------------------------
(* Properties *)

\* The wrappers that the last decryption should have made use of.
Willing == {s \in DOMAIN wrappers : AnnotationOf(s) # <<>> /\ Probe(s, decrypted.params)}
Opens(s) == \E i \in DOMAIN AnnotationOf(s) : LET p == AnnotationOf(s)[i] IN
              /\ p.opts # ""
              /\ s = "jwe" => \E k \in Range(decrypted.params["privkeys"]) : k.key \in p.to
              /\ s # "jwe" => UnwrapsProvider(s, decrypted.params, decrypted.replies)
Sound(s) == /\ \A i \in DOMAIN AnnotationOf(s) : AnnotationOf(s)[i].legal /\ AnnotationOf(s)[i].opts # ""
            /\ s = "jwe" => AllKeys(decrypted.params["privkeys"], "private")

\* A layer to which nobody was added by this code opens for each of its recipients,
\* whatever packets for others are around theirs, whatever other private keys are given,
\* and in whatever order the wrappers are asked.
RecipientsOpen ==
  decrypted.state # "none" /\ pubOpts # "" /\ Willing # {} /\ (\A s \in Willing : Opens(s) /\ Sound(s))
  => decrypted.state = "opened"

=============================================================================
