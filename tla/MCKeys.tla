------------------------------- MODULE MCKeys -------------------------------
(***************************************************************************)
(* Instances for TLC of the components that carry keys and secrets by      *)
(* themselves: ocicrypt-rs with its key wrappers, coco_keyprovider against *)
(* the hub that unwraps what it made, sealed secrets, and the attesters.   *)
(***************************************************************************)
EXTENDS KeyWrap, KeyProvider, SealedSecret, MCAttesters

\* Keys "a" and "b" are recipients', "c" is somebody else's.
KeyFile(sort, key) == [sort |-> sort, key |-> key]
MCKeyFiles ==
  ("a.pub" :> KeyFile("public", "a")) @@ ("b.pub" :> KeyFile("public", "b"))
  @@ ("a" :> KeyFile("private", "a")) @@ ("b" :> KeyFile("private", "b"))
  @@ ("c" :> KeyFile("private", "c"))

Recipient(type, name) == [type |-> type, name |-> name, value |-> ""]
MCRecipientLists ==
  LET jwe(f) == Recipient("jwe", f)
      provider1 == Recipient("provider", "p") IN
  { <<jwe("a.pub")>>, <<jwe("a.pub"), provider1>>, <<jwe("c")>>, <<jwe("missing")>>, <<provider1>>,
    <<jwe("b.pub"), jwe("a.pub"), provider1, Recipient("provider", "q"), Recipient("pgp", "al"),
      Recipient("pkcs7", "a.pub"), Recipient("pkcs11", "a.pub")>> }

FileArg(name, form, password) ==
  [type |-> "file", name |-> name, form |-> form, password |-> password, value |-> ""]
NativeArg(value) ==
  [type |-> "provider", name |-> "attestation-agent", form |-> "none", password |-> "", value |-> value]
MCKeyLists ==
  { <<FileArg("a", "none", "")>>, <<FileArg("c", "pass", "x"), FileArg("b", "file", "a")>>,
    <<FileArg("a.pub", "none", ""), FileArg("a", "none", "")>>, <<FileArg("missing", "none", "")>>,
    <<NativeArg("cc::1")>>, <<NativeArg("cc::2"), FileArg("a", "fd", "0")>>,
    <<FileArg("a", "fd", "x")>>, <<NativeArg("bad")>> }

MCEnvironments ==
  { <<>>, "p" :> "grpc", "p" :> "native", "p" :> "cmd", ("p" :> "ttrpc") @@ ("q" :> "grpc") }
MCProviderNames == <<"p", "q">>

MCForeignPackets ==
  { [legal |-> TRUE, opts |-> "opts", by |-> "jwe", to |-> {"c"}],
    [legal |-> FALSE, opts |-> "opts", by |-> "jwe", to |-> {"c"}],
    [legal |-> TRUE, opts |-> "opts", by |-> "remote", to |-> {}] }

-----------------------------------------------------------------------------
(* Key provider *)

TheKek(n, length) == [id |-> n, length |-> length]
MCKekFiles == ("k1" :> TheKek(1, 32)) @@ ("k2" :> TheKek(2, 32)) @@ ("short" :> TheKek(3, 16))
              @@ ("A256CTR" :> TheKek(4, 32))

KeyPath == <<"default", "key", "1">>
KeyUri == Kid("uri", "", "resource", KeyPath)
MCKids == { NoKid, KeyUri, Kid("uri", "host", "resource", KeyPath), Kid("bare", "host", "resource", KeyPath),
            Kid("bare", "", "resource", <<"a">>), Kid("uri", "", "p", KeyPath) }

Parameters(sample, kid, file) ==
  [base64 |-> TRUE, sample |-> sample, keyid |-> kid, keypath |-> file, algorithm |-> "A256CTR"]
WrapOf(params) == [json |-> TRUE, optsdata |-> "opts", ec |-> TRUE, params |-> params]
MCWrapRequests ==
  { WrapOf(<<Parameters("none", kid, "k1")>>) : kid \in MCKids }
  \cup { WrapOf(<<Parameters("none", KeyUri, f)>>) : f \in {"", "A256CTR", "short", "missing", "k2"} }
  \cup { WrapOf(<<>>), WrapOf(<<Parameters("true", NoKid, "")>>),
         WrapOf(<<[Parameters("none", KeyUri, "") EXCEPT !.base64 = FALSE]>>),
         [WrapOf(<<Parameters("none", KeyUri, "k2")>>) EXCEPT !.optsdata = "illegal"],
         [WrapOf(<<Parameters("none", KeyUri, "k2")>>) EXCEPT !.ec = FALSE],
         [WrapOf(<<Parameters("none", KeyUri, "k2")>>) EXCEPT !.json = FALSE] }

StoreFile(state, keys) == [state |-> state, keys |-> keys]
MCOfflineStores ==
  { <<>>, <<StoreFile("missing", <<>>), StoreFile("illegal", <<>>)>>,
    <<StoreFile("ok", KeyPath :> TheKek(1, 32)), StoreFile("ok", KeyPath :> TheKek(2, 32))>> }

MCOtherPackets ==
  LET p == [NoPacket EXCEPT !.kid = KeyUri] IN
  { p, [p EXCEPT !.wrapped = <<1, 16, "A256CTR">>, !.iv = 16, !.wrap_type = "A256CTR"],
    [p EXCEPT !.provider = "aliyun", !.settings = TRUE], [p EXCEPT !.provider = "aws"],
    [p EXCEPT !.version = "0.2.0", !.iv = 12, !.wrap_type = "A256GCM"],
    [p EXCEPT !.wrap_type = "other", !.iv = 12] }

-----------------------------------------------------------------------------
(* Sealed secrets *)

UriKid == [form |-> "uri", name |-> "kid"]
LocalKid == [form |-> "local", name |-> "kid"]
OutsideKid == [form |-> "outside", name |-> "x"]

SealOf(type, provider0, credential, kid) ==
  [type |-> type, provider |-> provider0, credential |-> credential, password |-> credential,
   instance |-> "kst", region |-> "r", name |-> IF type = "vault" THEN "vaulted" ELSE "key",
   data |-> "data", settings |-> NoSettings, annotations |-> "none", kid |-> kid, jwk |-> "jwk1"]
MCSealRequests ==
  { SealOf("envelope", "aliyun", "ck1", UriKid), SealOf("envelope", "aws", "ak1", LocalKid),
    SealOf("vault", "kbs", "", UriKid), [SealOf("vault", "aws", "", LocalKid) EXCEPT !.annotations = "first"] }

VaultPayload ==
  [legal |-> TRUE, version |-> "0.1.0", type |-> "vault", name |-> "vaulted", provider |-> "kbs",
   settings |-> NoSettings, annotations |-> "none", data |-> <<"", "">>,
   cipher |-> [provider |-> "", key |-> "", dek |-> ""]]
MCOtherSecrets ==
  LET by(kid, payload) == Signed(kid, "jwk1", payload)
      aliyun(settings) == [VaultPayload EXCEPT !.provider = "aliyun", !.settings = settings] IN
  { [by(UriKid, VaultPayload) EXCEPT !.payload.annotations = "first"],
    [by(OutsideKid, VaultPayload) EXCEPT !.form = "bare"],
    [by(UriKid, VaultPayload) EXCEPT !.jws = FALSE], [by(UriKid, VaultPayload) EXCEPT !.alg = "RS256"],
    by(LocalKid, [VaultPayload EXCEPT !.version = "2"]), by(UriKid, [VaultPayload EXCEPT !.type = "envelope"]),
    by(LocalKid, aliyun([NoSettings EXCEPT !.client_type = "sts_token", !.region = "r", !.token_path = "t"])),
    by(UriKid, aliyun([NoSettings EXCEPT !.client_type = "ecs_ram_role"])) }

MCGuestFiles ==
  { (<<"clientKey", "ck1">> :> "ck1") @@ (<<"password", "ck1">> :> "ck1")
      @@ (<<"PrivateKmsCA", "kst">> :> "cert"),
    (<<"aws", "">> :> "ak1") @@ (<<"token", "t">> :> "sts1") @@ (<<"ecsRamRole", "">> :> "role1"),
    (<<"password", "ck1">> :> "illegal") @@ (<<"aws", "">> :> "illegal") }
MCVaultWrites == {<<"kbs", "v1">>, <<"aws", "v1">>}
MCKmsKeys == {<<"aliyun", "key">>, <<"aws", "key">>}
=============================================================================
