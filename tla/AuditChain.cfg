SPECIFICATION LiveSpec
CONSTANTS
    Txns = {t1, t2, t3, t4, t5}
    RowTxns = {t1, t2}
    Digest <- MCDigest
    GenesisHash <- MCGenesisHash
    ZeroHash <- MCZeroHash
    GenesisBody = GenesisBody
    Tampered = Tampered
    NoTxn = NoTxn
INVARIANTS TypeOK ChainLinked VerifySound AlterationFound
PROPERTIES LogKept AppendsFinish
\* Every transaction has ended.
CHECK_DEADLOCK FALSE
