------------------------------ MODULE SSHMethods -----------------------------
(***************************************************************************)
(* kex.c, hostkey.c, crypt.c, mac.c, comp.c and openssl.c: the methods of a  *)
(* build, best first, and what a session does with one: a context made from  *)
(* the keys of an exchange, a host key that verifies, a private key that     *)
(* signs.                                                                    *)
(*                                                                          *)
(* A cipher or a MAC is what its context was made of: two ends understand    *)
(* each other when theirs are equal. A key is what was hashed into it.       *)
(***************************************************************************)
EXTENDS Integers, Sequences, SequencesExt

Gex == "diffie-hellman-group-exchange-sha1"
KexMethods == <<"diffie-hellman-group14-sha1", Gex, "diffie-hellman-group1-sha1">>
HostkeyMethods == <<"ssh-rsa", "ssh-dss">>
CompMethods == <<"none", "zlib">>

Cipher(name, algo, iv_len, secret_len) ==
    [name |-> name, algo |-> algo, iv_len |-> iv_len, secret_len |-> secret_len]
Ciphers ==
    <<Cipher("aes256-cbc", "aes256", 16, 32),
      Cipher("rijndael-cbc@lysator.liu.se", "aes256", 16, 32),
      Cipher("aes192-cbc", "aes192", 16, 24),
      Cipher("aes128-cbc", "aes128", 16, 16),
      Cipher("blowfish-cbc", "blowfish", 8, 16),
      Cipher("arcfour", "arcfour", 8, 16),
      Cipher("cast128-cbc", "cast5", 8, 16),
      Cipher("3des-cbc", "3des", 8, 24)>>
Mac(name, hash, mac_len, key_len) ==
    [name |-> name, hash |-> hash, mac_len |-> mac_len, key_len |-> key_len]
Macs ==
    <<Mac("hmac-sha1", "sha1", 20, 20),
      Mac("hmac-sha1-96", "sha1", 12, 20),
      Mac("hmac-md5", "md5", 16, 16),
      Mac("hmac-md5-96", "md5", 12, 16),
      Mac("hmac-ripemd160", "ripemd160", 20, 20),
      Mac("hmac-ripemd160@openssh.com", "ripemd160", 20, 20)>>
Names(methods) == [i \in DOMAIN methods |-> methods[i].name]
Named(methods) ==
    [name \in ToSet(Names(methods)) |->
        CHOOSE method \in ToSet(methods) : method.name = name]
CipherNamed == Named(Ciphers)
MacNamed == Named(Macs)

\* The names of each kind, in the order in which this library prefers them.
MethodNames(kind) ==
    CASE kind = "KEX" -> KexMethods
      [] kind = "HOSTKEY" -> HostkeyMethods
      [] kind \in {"CRYPT_CS", "CRYPT_SC"} -> Names(Ciphers)
      [] kind \in {"MAC_CS", "MAC_SC"} -> Names(Macs)
      [] kind \in {"COMP_CS", "COMP_SC"} -> CompMethods

----------------------------------------------------------------------------
(* Contexts *)

\* LIBSSH2_KEX_METHOD_DIFFIE_HELLMAN_SHA1_HASH: a key of so many bytes comes from
\* the secret and the hash of an exchange, a letter for its use, and the
\* identifier of the session.
KeyMaterial(h, session_id, letter, length) == <<h, session_id, letter, length>>

\* The letters: initial values, secrets and MAC keys of the two directions.
ToServer == [iv |-> "A", secret |-> "C", mac |-> "E"]
ToClient == [iv |-> "B", secret |-> "D", mac |-> "F"]

\* crypt.c init: the cipher is chained from its initial value on.
CryptInit(name, h, session_id, letters) ==
    LET cipher == CipherNamed[name] IN
    [algo |-> cipher.algo,
     iv |-> KeyMaterial(h, session_id, letters.iv, cipher.iv_len),
     secret |-> KeyMaterial(h, session_id, letters.secret, cipher.secret_len)]
\* libssh2_mac_method_common_init keeps the key.
MacInit(name, h, session_id, letters) ==
    KeyMaterial(h, session_id, letters.mac, MacNamed[name].key_len)
\* What a packet's MAC is: the hash of the method, cut to its length, under the key.
MacHash(name, key) ==
    [hash |-> MacNamed[name].hash, mac_len |-> MacNamed[name].mac_len, key |-> key]

\* A method that does not compress has no stream; zlib's goes on from packet to
\* packet, from the exchange at which it was begun.
NoComp == [name |-> "none", begun |-> 0]
CompInit(name, begun) == [name |-> name, begun |-> begun]
CompContext(name, begun) == IF name = "none" THEN NoComp ELSE CompInit(name, begun)

----------------------------------------------------------------------------
(* Keys that sign *)

\* A public key says which method it is for. A host key's method takes no other.
HostkeyInit(name, blob) == blob = name

\* A signature: who made it, over what, and its length in bytes.
Signature(by, over, length) == [by |-> by, over |-> over, length |-> length]
RsaVerify(sig, blob, hash) == sig.by = blob /\ sig.over = hash
DsaVerify(sig, blob, hash) == sig.by = blob /\ sig.over = hash
RsaSigVerify(sig, blob, hash) == RsaVerify(sig, blob, hash)
DssSigVerify(sig, blob, hash) == sig.length = 40 /\ DsaVerify(sig, blob, hash)
SigVerify(name, sig, blob, hash) ==
    IF name = "ssh-rsa" THEN RsaSigVerify(sig, blob, hash) ELSE DssSigVerify(sig, blob, hash)

\* Private keys: one whose file does not open, or not with the passphrase, is none.
\* libssh2_file_read_privatekey takes the first method that begins with the name.
NoKey == "none"
InitPEM(name, opens) == IF opens THEN name ELSE NoKey

\* What a key makes of a hash. The two halves of a DSA signature are written one
\* after the other: when the second is short, the first is where nobody looks.
Garbled == -1
RsaSignv(hash) == {Signature("ssh-rsa", hash, 256)}
DsaSha1Sign(hash) == {hash, Garbled}
DssSignv(hash) == {Signature("ssh-dss", over, 40) : over \in DsaSha1Sign(hash)}
Signv(name, hash) == IF name = "ssh-rsa" THEN RsaSignv(hash) ELSE DssSignv(hash)
=============================================================================
