------------------------------ MODULE PKeyData -------------------------------
(***************************************************************************)
(* Keys, handles and requests, as the public-key functions of zucrypt.h    *)
(* and zuc_pkey.c both know them.                                          *)
(***************************************************************************)
EXTENDS Naturals, FiniteSets

CONSTANTS
    Key,        \* key pairs
    Type,       \* the zuc_alg of each
    Handle,     \* the caller's zuc_pkey pointers
    NoKey,
    NoHandle

ASSUME KeyAssumption ==
    /\ NoKey \notin Key
    /\ NoHandle \notin Handle
    /\ IsFiniteSet(Handle)
    /\ Type \in [Key -> {"RSA", "P256", "P384", "P521", "X25519"}]

Material == [key: Key, private: BOOLEAN]

NoMaterial == [key |-> NoKey, private |-> FALSE]

Maker == {"parse", "generate", "import", "public"}

Fn == Maker \union {"none", "write", "export", "sign", "verify", "encrypt", "decrypt", "agree"}

\* The rest of the arguments, as far as they matter.
Format == {"PKCS1_DER", "PKCS1_PEM", "INFO_DER", "INFO_PEM", "other"}

Input == {"null", "nul", "junk", "foreign", "der", "pem"}

Scheme == {"none", "rsa", "ecdsa"}

Truth == {"valid", "invalid", "length"}

Status == {"OK", "NOT_READY", "INVALID_ARGUMENT", "UNSUPPORTED", "BAD_LENGTH", "MEMORY",
           "BACKEND", "INTERNAL", "ENTROPY", "AUTH"}

=============================================================================
