------------------------------- MODULE KeyStore -------------------------------
(***************************************************************************)
(* encryption.KMS and the encryption service: every encrypted chunk has a  *)
(* key of its own, a row of kms_keys sealed with the password that is kept *)
(* in one file.  The file is made when the first start does not find it    *)
(* and is read again for every key; it is never rewritten.                 *)
(*                                                                         *)
(* A password is a model value; a key is its row number (AUTOINCREMENT).   *)
(* A ciphertext opens with the key it was made with and no other.          *)
(***************************************************************************)
EXTENDS Naturals, Sequences

CONSTANTS
    Passwords,   \* what rand.Read may produce, and what a cut-off one decodes to
    NoFile,      \* the password file does not exist
    EmptyFile,   \* it exists and is empty
    BadFile,     \* its content does not decode
    MaxKeys      \* bound on the rows of kms_keys

ASSUME PasswordFileAssumption ==
    /\ NoFile \notin Passwords /\ EmptyFile \notin Passwords /\ BadFile \notin Passwords
    /\ NoFile # EmptyFile /\ NoFile # BadFile /\ EmptyFile # BadFile
ASSUME MaxKeysAssumption == MaxKeys \in Nat

VARIABLES
    passwordFile,  \* the file KMS_PASSWORD_KEY_PATH
    keys           \* the rows of kms_keys: [sealedBy, deleted]

Ciphers == {"AES-256-GCM", "ChaCha20-Poly1305"}
EncryptionTypes == Ciphers \cup {"None"}

KeyStoreTypeOK ==
    /\ passwordFile \in Passwords \cup {NoFile, EmptyFile, BadFile}
    /\ keys \in Seq([sealedBy : Passwords, deleted : BOOLEAN])

KeyStoreInit ==
    /\ passwordFile = NoFile
    /\ keys = <<>>

\* rand.Read: a password that was not used before.
FreshPasswords ==
    {p \in Passwords : p # passwordFile /\ \A k \in DOMAIN keys : keys[k].sealedBy # p}

-----------------------------------------------------------------------------
(***************************************************************************)
(* ensurePasswordFile, in the order of its effects on the file.            *)
(***************************************************************************)

\* Mutant of PasswordFileMissing: every start makes a new password.
PasswordFileNotChecked == TRUE

\* os.Stat answers os.ErrNotExist: nothing else makes the code write the file.
PasswordFileMissing == passwordFile = NoFile

\* os.WriteFile begins: the file is created, or truncated, and has no content.
OpenPasswordFile ==
    /\ PasswordFileMissing
    /\ passwordFile' = EmptyFile
    /\ UNCHANGED keys

\* os.WriteFile ends.
WritePasswordFile ==
    /\ passwordFile' \in FreshPasswords
    /\ UNCHANGED keys

\* os.WriteFile fails: what it has written of the password stays.
TearPasswordFile ==
    /\ passwordFile' \in {EmptyFile, BadFile} \cup FreshPasswords
    /\ UNCHANGED keys

-----------------------------------------------------------------------------
\* readPassword: the file exists, is not empty and decodes.
PasswordReadable == passwordFile \in Passwords

\* encryptJSON: the row of a new key, which only the same password opens ...
EncryptJSON(password) == [sealedBy |-> password, deleted |-> FALSE]

\* ... in decryptJSON (GCM authenticates).
DecryptJSON(row, password) == row.sealedBy = password

\* CreateKey succeeds; without a readable password or a writable database it
\* returns an error and leaves no row.
CreateKey ==
    /\ PasswordReadable
    /\ Len(keys) < MaxKeys
    /\ keys' = Append(keys, EncryptJSON(passwordFile))
    /\ UNCHANGED passwordFile

\* ListKeys: the keys that are not deleted.
LiveKeys == {k \in DOMAIN keys : ~keys[k].deleted}

\* GetKey finds the row, reads the password and opens the row with it.
KeyOpens(k) ==
    /\ k \in LiveKeys
    /\ PasswordReadable
    /\ DecryptJSON(keys[k], passwordFile)

\* DeleteKey: the row is kept and marked; a deleted key is "not found".
DeleteKey(k) ==
    /\ k \in LiveKeys
    /\ keys' = [keys EXCEPT ![k].deleted = TRUE]
    /\ UNCHANGED passwordFile

\* decryptAES256GCM, decryptChaCha20Poly1305: key 0 is no key.
DecryptWithKey(k) == k > 0 /\ KeyOpens(k)

\* Decrypt of what was stored as enc = [type, key].
Decrypt(enc) == enc.type = "None" \/ (enc.type \in Ciphers /\ DecryptWithKey(enc.key))

-----------------------------------------------------------------------------
\* Whatever crashes and failed writes a start went through, every key that was
\* created and not deleted can be opened with the password file as it is: no
\* start replaces a password that has sealed a key, and no key is sealed with a
\* password that was not stored (ensurePasswordFile, CreateKey).
KeysStayOpen == \A k \in LiveKeys : KeyOpens(k)
=============================================================================
